---- MODULE Spec2Model ----
(***************************************************************************)
(* State-machine model of the mknm_os kernel: the xHCI producer ring, the  *)
(* cooperative runtime's channel and broadcast latch, the software timer   *)
(* manager, and the port addressing logic of the xHCI driver.              *)
(*                                                                         *)
(* Every subsystem has its own variables and its own specification; a      *)
(* specification leaves the variables of the other subsystems unchanged.   *)
(***************************************************************************)
EXTENDS Integers, Sequences, FiniteSets, TLC

VARIABLES
    ring,       \* ProducerRing {data, cycle_state, enque, deque}
    ringRes,    \* what the last ring call was given and what it returned
    npush,      \* number of pushes that returned Ok so far
    dequeued,   \* whether set_deque_ptr was ever called on the ring
    chQueue,    \* channel: the shared VecDeque<T>
    chWaker,    \* channel: the shared Option<Waker> (None or a task)
    chWoken,    \* tasks woken through the channel, in wake order
    chSent,     \* every value sent on the channel, in send order
    chRcvd,     \* every value a receive returned, in receive order
    chRes,      \* what the last receive or poll returned
    bcFlag,     \* broadcast latch: the shared flag
    bcWakers,   \* broadcast latch: the shared Vec<Waker>
    bcWoken,    \* tasks woken by BroadcastSender::send, in wake order
    bcReg,      \* every waker a Pending poll registered, in poll order
    bcSends,    \* number of BroadcastSender::send calls so far
    bcRes,      \* what the last poll of a BroadcastReceiver returned
    tick,       \* TimerManager.tick
    timers,     \* TimerManager.timers, the heap's content by timeout
    events,     \* EVENTS, the kernel's MessageQueue
    added,      \* the add_timer calls so far: timeout, value, log length then
    tlog,       \* the TimerTimeout pushes of tick() so far, in push order
    tickRes,    \* what the last tick() was given and what it returned
    impl,       \* which addressing logic the kernel runs: "xhci" or "action"
    portsc,     \* PORTSC of every root hub port: CCS, CSC, PRC, PR, speed
    evRing,     \* event TRBs the controller posted and the driver has not read
    cmdRing,    \* the command ring, a ProducerRing
    hwCmds,     \* command TRBs pushed and not yet executed by the controller
    nextSlot,   \* the slot id the controller hands out next
    phase,      \* run_xhci_tasks: "idle", draining "events", or polling "tasks"
    xhc,        \* channels, callback maps and port bookkeeping of the driver
    task,       \* the port task: await point, executor flag, locals
    addrOut,    \* every slot id sent on the address-device channel
    steps,      \* per port: what the driver did for it, in order
    trfRings,   \* the transfer rings by (slot, endpoint)
    trfListener,\* TRB addresses with a oneshot registered for their event
    hwTrbs,     \* per ring: transfer TRBs pushed and not yet executed
    trfCalls,   \* number of control_request calls so far
    trfRes,     \* what the last control_request or TransferEvent did
    cmdImpl,    \* which event ring drain the kernel runs: "xhci" or "action"
    cmdSt,      \* command ring, commands not yet executed, callbacks, caller
    cmdEvents,  \* event TRBs posted and not yet read
    cmdSlot,    \* the slot id the controller hands out next
    cmdCount,   \* number of commands the caller issued so far
    cmdHalted,  \* whether the kernel panicked
    cmdRes,     \* what the last push or the last drained event did
    memMap,     \* the memory map the frame allocator was built from
    allocMap,   \* alloc_map: the frames whose bit is 1
    availableRange, \* available_range: <<first, last + 1>>
    memHeld,    \* the runs <<start, nframes>> the callers hold
    memHist,    \* the last two calls of allocate and free
    memTrip,    \* the allocate, free, allocate of one run now under way
    slabHead, \* head of the free list of every block size
    slabMem, \* the first bytes of every object of the slab pages
    slabLive, \* the objects handed out and not yet given back, oldest first
    slabCaller, \* where the callers of alloc and dealloc are
    slabRes, \* what the last alloc or dealloc did
    lpElapsed, \* TIMER_ELAPSED
    lpTimer, \* TIMER as the event loop sees it
    lpEvents, \* EVENTS as the event loop sees it
    lpPc, \* where the event loop is: loop, dispatch or taskB
    lpMsg, \* the message the loop popped
    lpIter, \* what the current or last iteration of the loop did
    lpPushed, \* the messages pushed with success, in order
    lpDispatched, \* the messages the loop matched on, in order
    lpCnt, \* cnt of task B
    lpRes, \* what the last push of an interrupt handler did
    lpBursts, \* how many bursts of LAPIC interrupts have arrived
    lpLapic, \* how many LAPIC interrupts the handler has handled
    usbdChan, \* the address-device channel: slot ids sent and not yet received
    usbdSent, \* how many devices have been announced
    usbdPc, \* where main_loop is
    usbdSlot, \* slot_id of main_loop
    usbdConfigured, \* the slots main_loop has configured
    usbdRet, \* what main_loop returned, if it did
    usbdCall, \* the last call main_loop awaited
    usbdRes,\* what the last read_config did
    erRing, \* the EventRing of the driver
    erHw, \* the controller: enqueue index, producer cycle state, ERDP
    erWritten, \* how many events the controller has written
    erPopped, \* the events pop has returned, in order
    erRes,\* what the last pop did
    lkPc, \* where the interrupted code is (main loop or task B)
    lkIf, \* the interrupt flag of the processor
    lkInt, \* where the running interrupt handler is, or none
    lkEvents, \* the locked field of the EVENTS mutex
    lkTimer, \* the locked field of the TIMER mutex
    lkQueue, \* the kinds of the messages in EVENTS
    lkElapsed, \* TIMER_ELAPSED
    lkPush, \* overdue timers the running tick has still to push
    lkMsg, \* the kind of the message the loop popped
    lkCalls, \* the timer calls the loop has still to make
    lkSaved, \* the flag without_interrupts saved
    lkPanic,\* the assert of SingleMutex::lock has failed
    rtPhase, \* idle, or the event ring drain, or the loop of run_xhci_tasks
    rt, \* the executor queue, the future slots, two channels with their wakers, and what the two futures have done
    rtSent, \* values sent on the first channel so far
    rtWakes, \* wakes through further waker clones so far
    rtOuts, \* per task, the outputs process_next_task returned for it
    rtReported, \* the tasks whose Err was printed
    rtLast,\* what the last process_next_task did
    hidRing, \* the transfer ring of the interrupt endpoint
    hidListener, \* the TRB addresses a oneshot is registered at
    hidHw, \* the TRBs of the ring the controller has not completed
    hidPc, \* where the task of the HID device is
    hidPushes, \* how many Normal TRBs subscribe_once has pushed
    hidBuf, \* the buffer subscribe_once gave the task (numbered by push)
    hidRecv, \* the result the oneshot of the task holds
    hidEvents, \* how many transfers have completed
    hidOk, \* how many of them with Success or ShortPacket
    hidCalled, \* how many times the callback was called
    hidLastCall, \* the buffer of the last callback and the pushes made before it
    hidLastOk, \* the buffer of the last transfer with Success or ShortPacket
    hidErr \* subscribe_once returned Err

ringVars == <<ring, ringRes, npush, dequeued>>

chanVars == <<chQueue, chWaker, chWoken, chSent, chRcvd, chRes>>

bcVars == <<bcFlag, bcWakers, bcWoken, bcReg, bcSends, bcRes>>

timerVars == <<tick, timers, events, added, tlog, tickRes>>

addrVars == <<impl, portsc, evRing, cmdRing, hwCmds, nextSlot, phase, xhc,
              task, addrOut, steps>>

trfVars == <<trfRings, trfListener, hwTrbs, trfCalls, trfRes>>

cmdVars == <<cmdImpl, cmdSt, cmdEvents, cmdSlot, cmdCount, cmdHalted, cmdRes>>

memVars == <<memMap, allocMap, availableRange, memHeld, memHist, memTrip>>

slabVars == <<slabHead, slabMem, slabLive, slabCaller, slabRes>>

loopVars == <<lpElapsed, lpTimer, lpEvents, lpPc, lpMsg, lpIter, lpPushed,
              lpDispatched, lpCnt, lpRes, lpBursts, lpLapic>>

usbdVars == <<usbdChan, usbdSent, usbdPc, usbdSlot, usbdConfigured, usbdRet, usbdCall, usbdRes>>

erVars == <<erRing, erHw, erWritten, erPopped, erRes>>

lkVars == <<lkPc, lkIf, lkInt, lkEvents, lkTimer, lkQueue, lkElapsed, lkPush, lkMsg, lkCalls, lkSaved, lkPanic>>

rtVars == <<rtPhase, rt, rtSent, rtWakes, rtOuts, rtReported, rtLast>>

hidVars == <<hidRing, hidListener, hidHw, hidPc, hidPushes, hidBuf, hidRecv, hidEvents, hidOk, hidCalled, hidLastCall, hidLastOk, hidErr>>

vars == <<ring, ringRes, npush, dequeued,
          chQueue, chWaker, chWoken, chSent, chRcvd, chRes,
          bcFlag, bcWakers, bcWoken, bcReg, bcSends, bcRes,
          tick, timers, events, added, tlog, tickRes,
          impl, portsc, evRing, cmdRing, hwCmds, nextSlot, phase, xhc,
          task, addrOut, steps,
          trfRings, trfListener, hwTrbs, trfCalls, trfRes,
          cmdImpl, cmdSt, cmdEvents, cmdSlot, cmdCount, cmdHalted, cmdRes,
          memMap, allocMap, availableRange, memHeld, memHist, memTrip,
          slabHead, slabMem, slabLive, slabCaller, slabRes,
          lpElapsed, lpTimer, lpEvents, lpPc, lpMsg, lpIter, lpPushed,
          lpDispatched, lpCnt, lpRes, lpBursts, lpLapic,
          usbdChan, usbdSent, usbdPc, usbdSlot, usbdConfigured, usbdRet, usbdCall, usbdRes,
          erRing, erHw, erWritten, erPopped, erRes,
          lkPc, lkIf, lkInt, lkEvents, lkTimer, lkQueue, lkElapsed, lkPush, lkMsg, lkCalls, lkSaved, lkPanic,
          rtPhase, rt, rtSent, rtWakes, rtOuts, rtReported, rtLast,
          hidRing, hidListener, hidHw, hidPc, hidPushes, hidBuf, hidRecv, hidEvents, hidOk, hidCalled, hidLastCall, hidLastOk, hidErr>>

(***************************************************************************)
(* usb/ring.rs: ProducerRing                                               *)
(***************************************************************************)

\* ProducerRing::new(32) in initialize_xhci and init_trf_ring
RingSize == 32

\* pushes per behaviour: enough for the enqueue index to wrap twice
MaxPush == 64

\* data.len() - 1: the slot of the Link TRB
LinkSlot == RingSize - 1

\* UnknownTRB::default(): all bits zero; seq = -1 marks "never pushed"
DefaultTRB == [cycle |-> FALSE, seq |-> -1]

\* ProducerRing::new
\* Link::new() with set_ring_segment_pointer(data.as_ptr()) and
\* set_toggle_cycle(): the pointer is kept as the index it points at
LinkTRB ==
    [cycle |-> FALSE, seq |-> DefaultTRB.seq, ring_segment_pointer |-> 0,
     toggle_cycle |-> TRUE]

ProducerRing_new ==
    [data        |-> [i \in 0..(RingSize - 1) |->
                         IF i = RingSize - 1 THEN LinkTRB ELSE DefaultTRB],
     cycle_state |-> TRUE,
     enque       |-> 0,
     deque       |-> 0]

\* next_ptr without the wrap before the Link TRB slot
next_ptr_nowrap(r, ptr) ==
    ptr + 1

\* ProducerRing::next_ptr
next_ptr(r, ptr) ==
    IF ptr + 1 = RingSize - 1 THEN 0 ELSE ptr + 1

\* advance_enque_ptr that wraps without toggling the cycle state
advance_enque_ptr_notoggle(r) ==
    LET e == r.enque + 1 IN
    IF e = RingSize - 1
    THEN [r EXCEPT !.data[e].cycle = r.cycle_state, !.enque = 0]
    ELSE [r EXCEPT !.enque = e]

\* advance_enque_ptr that leaves the cycle bit of the Link TRB alone
advance_enque_ptr_nolink(r) ==
    LET e == r.enque + 1 IN
    IF e = RingSize - 1
    THEN [r EXCEPT !.enque = 0, !.cycle_state = ~r.cycle_state]
    ELSE [r EXCEPT !.enque = e]

\* ProducerRing::advance_enque_ptr
advance_enque_ptr(r) ==
    LET e == r.enque + 1 IN
    IF e = RingSize - 1
    THEN [r EXCEPT !.data[e].cycle = r.cycle_state,
                   !.enque = 0,
                   !.cycle_state = ~r.cycle_state]
    ELSE [r EXCEPT !.enque = e]

\* the full test at the head of ProducerRing::push
ring_is_full(r) ==
    next_ptr(r, r.enque) = r.deque

\* ProducerRing::push; seq is the caller's TRB
push(r, seq) ==
    IF ring_is_full(r)
    THEN [ok |-> FALSE, ring |-> r, ptr |-> -1]
    ELSE [ok   |-> TRUE,
          ring |-> advance_enque_ptr(
                      [r EXCEPT !.data[r.enque] =
                                   [cycle |-> r.cycle_state, seq |-> seq]]),
          ptr  |-> r.enque]

\* set_deque_ptr that leaves the dequeue index where it is
set_deque_ptr_stay(r, index) ==
    r

\* ProducerRing::set_deque_ptr; index is (deque_ptr - buf_ptr) / size_of TRB
set_deque_ptr(r, index) ==
    [r EXCEPT !.deque = next_ptr(r, index)]

NoRes == [op |-> "none", ok |-> FALSE, enq |-> 0, deq |-> 0, n |-> 0]

RingStart ==
    /\ ring = ProducerRing_new
    /\ ringRes = NoRes
    /\ npush = 0
    /\ dequeued = FALSE

\* one call of push
RingPush ==
    /\ npush < MaxPush
    /\ LET res == push(ring, npush) IN
       /\ ring' = res.ring
       /\ npush' = IF res.ok THEN npush + 1 ELSE npush
       /\ ringRes' = [op |-> "push", ok |-> res.ok, enq |-> ring.enque,
                      deq |-> ring.deque, n |-> npush]
       /\ UNCHANGED dequeued

\* one call of set_deque_ptr with the address of a TRB push returned earlier
RingSetDeque ==
    \E index \in 0..(RingSize - 2) :
        /\ ring.data[index].seq >= 0
        /\ ring' = set_deque_ptr(ring, index)
        /\ ringRes' = [op |-> "set_deque", ok |-> TRUE, enq |-> ring.enque,
                       deq |-> ring.deque, n |-> index]
        /\ dequeued' = TRUE
        /\ UNCHANGED npush

RingNext ==
    \/ RingPush
    \/ RingSetDeque

(***************************************************************************)
(* usb/runtime.rs: Sender / Receiver / Recv                                *)
(***************************************************************************)

\* clones of the Sender
NumSenders == 2

\* sends per behaviour
MaxSend == 4

\* tasks that may poll receive_async
NumTasks == 2

Senders == 1..NumSenders

Tasks == 1..NumTasks

\* Option::None for a waker, a value or a port
None == 0

\* VecDeque::push_front, which a sender never calls
push_front(q, v) ==
    <<v>> \o q

\* VecDeque::push_back as Sender::send calls it
push_back(q, v) ==
    Append(q, v)

\* VecDeque::pop_front as Receiver::receive and Recv::poll call it
pop_front(q) ==
    IF q = <<>>
    THEN [some |-> FALSE, val |-> None, rest |-> q]
    ELSE [some |-> TRUE, val |-> Head(q), rest |-> Tail(q)]

\* new_channel
ChanStart ==
    /\ chQueue = <<>>
    /\ chWaker = None
    /\ chWoken = <<>>
    /\ chSent = <<>>
    /\ chRcvd = <<>>
    /\ chRes = [op |-> "none", some |-> FALSE, val |-> None]

\* Sender::send from clone s; the value sent is tagged with its send number
ChanSend(s) ==
    /\ Len(chSent) < MaxSend
    /\ LET msg == [from |-> s, val |-> Len(chSent) + 1] IN
       /\ chQueue' = push_back(chQueue, msg)
       /\ chSent' = Append(chSent, msg)
    /\ chWoken' = IF chWaker # None THEN Append(chWoken, chWaker) ELSE chWoken
    /\ chWaker' = None
    /\ UNCHANGED <<chRcvd, chRes>>

\* Receiver::receive
ChanReceive ==
    LET got == pop_front(chQueue) IN
    /\ chQueue' = got.rest
    /\ chRcvd' = IF got.some THEN Append(chRcvd, got.val) ELSE chRcvd
    /\ chRes' = [op |-> "receive", some |-> got.some, val |-> got.val]
    /\ UNCHANGED <<chWaker, chWoken, chSent>>

\* Recv::poll with the waker of task t
ChanRecvPoll(t) ==
    LET got == pop_front(chQueue) IN
    /\ chQueue' = got.rest
    /\ chRcvd' = IF got.some THEN Append(chRcvd, got.val) ELSE chRcvd
    /\ chWaker' = IF got.some THEN chWaker ELSE t
    /\ chRes' = [op |-> "poll", some |-> got.some, val |-> got.val]
    /\ UNCHANGED <<chWoken, chSent>>

ChanNext ==
    \/ \E s \in Senders : ChanSend(s)
    \/ ChanReceive
    \/ \E t \in Tasks : ChanRecvPoll(t)

(***************************************************************************)
(* usb/runtime.rs: BroadcastReceiver / BroadcastSender                     *)
(***************************************************************************)

\* clones of the BroadcastReceiver
NumClones == 2

\* polls that may return Pending per behaviour
MaxPending == 3

\* BroadcastSender::send calls per behaviour
MaxBSend == 2

Clones == 1..NumClones

\* new_broadcast_channel
BcStart ==
    /\ bcFlag = FALSE
    /\ bcWakers = <<>>
    /\ bcWoken = <<>>
    /\ bcReg = <<>>
    /\ bcSends = 0
    /\ bcRes = [op |-> "none", ready |-> FALSE, sends |-> 0, clone |-> None]

\* BroadcastReceiver::poll on clone c with the waker of task t
BroadcastPoll(c, t) ==
    /\ bcFlag \/ Len(bcReg) < MaxPending
    /\ bcWakers' = IF bcFlag THEN bcWakers ELSE Append(bcWakers, t)
    /\ bcReg' = IF bcFlag THEN bcReg ELSE Append(bcReg, t)
    /\ bcRes' = [op |-> "poll", ready |-> bcFlag, sends |-> bcSends,
                 clone |-> c]
    /\ UNCHANGED <<bcFlag, bcWoken, bcSends>>

\* a send that sets the flag and leaves the registered wakers alone
BroadcastSend_nowake ==
    /\ bcSends < MaxBSend
    /\ bcFlag' = TRUE
    /\ bcSends' = bcSends + 1
    /\ bcRes' = [bcRes EXCEPT !.op = "send"]
    /\ UNCHANGED <<bcWakers, bcWoken, bcReg>>

\* BroadcastSender::send
BroadcastSend ==
    /\ bcSends < MaxBSend
    /\ bcFlag' = TRUE
    /\ bcWoken' = bcWoken \o bcWakers
    /\ bcWakers' = <<>>
    /\ bcSends' = bcSends + 1
    /\ bcRes' = [bcRes EXCEPT !.op = "send"]
    /\ UNCHANGED bcReg

BcNext ==
    \/ \E c \in Clones, t \in Tasks : BroadcastPoll(c, t)
    \/ BroadcastSend

(***************************************************************************)
(* timer.rs: TimerManager, and main.rs: MessageQueue                       *)
(***************************************************************************)

\* const TIMER_FREQ
TIMER_FREQ == 100

\* const TASK_TIMER_VALUE = u64::MIN
TASK_TIMER_VALUE == 0

\* const TASK_TIMER_PERIOD = TIMER_FREQ / 50
TASK_TIMER_PERIOD == TIMER_FREQ \div 50

\* the tick is not advanced beyond this
MaxTick == 3

\* largest elapsed value one tick() call is given
MaxElapsed == 2

\* add_timer calls per behaviour
MaxTimers == 2

\* largest timeout add_timer is given
MaxTimeout == 2

\* values add_timer is given: main.rs arms the timers 1 and 2
TimerValues == {1, 2}

\* slots of the MessageQueue (N)
QueueCap == 1

\* Message::Xhci
XhciMsg == [kind |-> "Xhci", val |-> 0, id |-> 0]

\* Message::TimerTimeout(val), pushed for the id-th add_timer call
TimerTimeoutMsg(val, id) == [kind |-> "TimerTimeout", val |-> val, id |-> id]

\* MessageQueue::new
MessageQueue_new ==
    [data      |-> [i \in 0..(QueueCap - 1) |-> XhciMsg],
     read_pos  |-> 0,
     write_pos |-> 0,
     cnt       |-> 0]

\* MessageQueue::push
mq_push(q, msg) ==
    IF q.cnt = QueueCap
    THEN [ok |-> FALSE, q |-> q]
    ELSE [ok |-> TRUE,
          q  |-> [q EXCEPT !.cnt = q.cnt + 1,
                           !.data[q.write_pos] = msg,
                           !.write_pos = (q.write_pos + 1) % QueueCap]]

\* MessageQueue::pop
mq_pop(q) ==
    IF q.cnt = 0
    THEN [some |-> FALSE, msg |-> XhciMsg, q |-> q]
    ELSE [some |-> TRUE,
          msg  |-> q.data[q.read_pos],
          q    |-> [q EXCEPT !.cnt = q.cnt - 1,
                             !.read_pos = (q.read_pos + 1) % QueueCap]]

\* inc_tick_volatile that counts one tick whatever elapsed is
inc_tick_volatile_one(t, elapsed) ==
    t + 1

\* TimerManager::inc_tick_volatile: the new value of self.tick
inc_tick_volatile(t, elapsed) ==
    t + elapsed

\* is_over that needs the tick to be two beyond the timeout
is_over_late(t, current_time) ==
    t.timeout + 1 < current_time

\* is_over that already holds when the tick has not reached the timeout
is_over_early(t, current_time) ==
    t.timeout < current_time + 2

\* Timer::is_over
is_over(t, current_time) ==
    t.timeout < current_time

\* the derived order of the timeouts, not reversed
timer_greater_unreversed(a, b) ==
    a.timeout > b.timeout

\* Timer's Ord: the greater timer is the one with the smaller timeout
timer_greater(a, b) ==
    a.timeout < b.timeout

\* BinaryHeap::push: the content is kept as a list, greatest timer first
heap_push(h, t) ==
    LET before == SelectSeq(h, LAMBDA x :
                     \/ x.timeout < t.timeout
                     \/ (x.timeout = t.timeout /\ x.id <= t.id))
        after  == SelectSeq(h, LAMBDA x :
                     ~ (\/ x.timeout < t.timeout
                        \/ (x.timeout = t.timeout /\ x.id <= t.id)))
    IN before \o <<t>> \o after

\* BinaryHeap::peek / pop: the indices of the timers no other timer is
\* greater than; which of several equal ones the heap yields is left open
heap_tops(h) ==
    {i \in 1..Len(h) : \A j \in 1..Len(h) : ~timer_greater(h[j], h[i])}

\* BinaryHeap without its i-th timer
heap_remove(h, i) ==
    SubSeq(h, 1, i - 1) \o SubSeq(h, i + 1, Len(h))

\* the body of tick()'s loop that forgets to push the task timer again
tick_body_norearm(st, top) ==
    IF top.value = TASK_TIMER_VALUE
    THEN [st EXCEPT !.task_timer_timeout = TRUE]
    ELSE LET res == mq_push(st.events, TimerTimeoutMsg(top.value, top.id)) IN
         [st EXCEPT !.events = res.q,
                    !.tlog = Append(st.tlog, [id |-> top.id, at |-> st.tick,
                                              ok |-> res.ok])]

\* the body of tick()'s loop, for the popped timer top
tick_body(st, top) ==
    IF top.value = TASK_TIMER_VALUE
    THEN [st EXCEPT !.task_timer_timeout = TRUE,
                    !.timers = heap_push(st.timers,
                                   [timeout |-> st.tick + TASK_TIMER_PERIOD,
                                    value   |-> TASK_TIMER_VALUE,
                                    id      |-> 0])]
    ELSE LET res == mq_push(st.events, TimerTimeoutMsg(top.value, top.id)) IN
         [st EXCEPT !.events = res.q,
                    !.tlog = Append(st.tlog, [id |-> top.id, at |-> st.tick,
                                              ok |-> res.ok])]

RECURSIVE tick_loop(_)
\* the while loop of tick(): every state it can end in
tick_loop(st) ==
    LET tops == {i \in heap_tops(st.timers) : is_over(st.timers[i], st.tick)} IN
    IF tops = {}
    THEN {st}
    ELSE UNION {tick_loop(tick_body(
                    [st EXCEPT !.timers = heap_remove(st.timers, i)],
                    st.timers[i])) : i \in tops}

\* the task timer's timeout in heap h (0 when the heap holds none)
task_timeout(h) ==
    LET s == SelectSeq(h, LAMBDA x : x.value = TASK_TIMER_VALUE) IN
    IF s = <<>> THEN 0 ELSE s[1].timeout

\* initialize_timer on TimerManager::new, with an empty MessageQueue
TimerStart ==
    /\ tick = 0
    /\ timers = heap_push(<<>>, [timeout |-> 0 + TASK_TIMER_PERIOD,
                                 value   |-> TASK_TIMER_VALUE,
                                 id      |-> 0])
    /\ events = MessageQueue_new
    /\ added = <<>>
    /\ tlog = <<>>
    /\ tickRes = [op |-> "none", ret |-> FALSE, elapsed |-> 0,
                  due |-> 0, now |-> 0]

\* TimerManager::tick(elapsed), as on_lapic_interrupt calls it
TimerTick(elapsed) ==
    /\ tick + elapsed <= MaxTick
    /\ \E out \in tick_loop([tick               |-> inc_tick_volatile(tick, elapsed),
                             timers             |-> timers,
                             events             |-> events,
                             tlog               |-> tlog,
                             task_timer_timeout |-> FALSE]) :
          /\ tick' = out.tick
          /\ timers' = out.timers
          /\ events' = out.events
          /\ tlog' = out.tlog
          /\ tickRes' = [op      |-> "tick",
                         ret     |-> out.task_timer_timeout,
                         elapsed |-> elapsed,
                         due     |-> task_timeout(timers),
                         now     |-> out.tick]
    /\ UNCHANGED added

\* add_timer(timeout, value) with a value other than the task timer's
AddTimer(timeout, value) ==
    /\ Len(added) < MaxTimers
    /\ timers' = heap_push(timers, [timeout |-> timeout, value |-> value,
                                    id |-> Len(added) + 1])
    /\ added' = Append(added, [timeout |-> timeout, value |-> value,
                               at |-> Len(tlog)])
    /\ UNCHANGED <<tick, events, tlog, tickRes>>

\* xhci_interrupt_handler: push Message::Xhci, ignoring a full queue
XhciInterrupt ==
    /\ events' = mq_push(events, XhciMsg).q
    /\ events' # events
    /\ UNCHANGED <<tick, timers, added, tlog, tickRes>>

\* the main loop's EVENTS.lock().pop()
PopMessage ==
    /\ events' = mq_pop(events).q
    /\ events' # events
    /\ UNCHANGED <<tick, timers, added, tlog, tickRes>>

TimerNext ==
    \/ \E elapsed \in 1..MaxElapsed : TimerTick(elapsed)
    \/ \E timeout \in 0..MaxTimeout, value \in TimerValues :
          AddTimer(timeout, value)
    \/ XhciInterrupt
    \/ PopMessage

\* every subsystem as its constructor leaves it
(***************************************************************************)
(* usb/xhci.rs and usb/action/init_device.rs: port addressing              *)
(*                                                                         *)
(* The repository holds two versions of the addressing logic: the port     *)
(* task of initialize_xhci with XhciController::init_device_exclusive_async *)
(* ("xhci") and DeviceInitAction::main_loop ("action").  impl says which   *)
(* one the kernel was built with.  The controller is modelled by what it   *)
(* does to PORTSC, the command ring and the event ring.                    *)
(***************************************************************************)

\* root hub ports of the controller (HCSPARAMS1.number_of_ports)
NumPorts == 2

Ports == 0..(NumPorts - 1)

\* PORTSC port speed of an attached device: 1 full speed, 3 high speed
Speeds == {1, 3}

Impls == {"xhci", "action"}

\* Option<usize>::None of a port id
NoPort == -1

\* an empty oneshot channel of CommandCompletion
NoCompletion == [ptr |-> -1, code |-> "None", slot_id |-> 0]

\* event TRB PortStatusChange; its port_id field counts from 1
PortStatusChangeTrb(p) ==
    [type |-> "PortStatusChange", port_id |-> p + 1,
     ptr |-> -1, code |-> "None", slot_id |-> 0]

\* event TRB CommandCompletion
CommandCompletionTrb(ptr, code, slot_id) ==
    [type |-> "CommandCompletion", port_id |-> 0,
     ptr |-> ptr, code |-> code, slot_id |-> slot_id]

\* command TRB EnableSlot::new()
EnableSlotTrb ==
    [kind |-> "EnableSlot", slot_id |-> 0, port_number |-> 0, speed |-> 0,
     ptr |-> -1]

\* config_slot_context: root hub port number and speed of the slot context
config_slot_context(st, port_id) ==
    [port_number |-> port_id + 1, speed |-> st.portsc[port_id].speed]

\* command TRB AddressDevice with the input context built for port_id
AddressDeviceTrb(st, port_id, slot_id) ==
    LET slot == config_slot_context(st, port_id) IN
    [kind |-> "AddressDevice", slot_id |-> slot_id,
     port_number |-> slot.port_number, speed |-> slot.speed, ptr |-> -1]

\* one entry of a port's history
StepRec(step, port_id, slot_id, port_number, speed, code) ==
    [step |-> step, port_id |-> port_id, slot_id |-> slot_id,
     port_number |-> port_number, speed |-> speed, code |-> code]

Log(st, p, step, slot_id, code) ==
    [st EXCEPT !.steps[p] =
        Append(@, StepRec(step, p, slot_id, 0, 0, code))]

LogTrb(st, p, trb) ==
    [st EXCEPT !.steps[p] =
        Append(@, StepRec(trb.kind, p, trb.slot_id, trb.port_number,
                          trb.speed, "None"))]

\* the driver's state as one record
AddrSt ==
    [portsc |-> portsc, cmdRing |-> cmdRing, hwCmds |-> hwCmds,
     xhc |-> xhc, task |-> task, addrOut |-> addrOut, steps |-> steps]

Commit(st) ==
    /\ portsc' = st.portsc
    /\ cmdRing' = st.cmdRing
    /\ hwCmds' = st.hwCmds
    /\ xhc' = st.xhc
    /\ task' = st.task
    /\ addrOut' = st.addrOut
    /\ steps' = st.steps

\* state after initialize_xhci / DeviceInitAction::new: the devices in boot
\* are attached, each with CSC set and its PortStatusChange event pending
AddrConstruct(i, boot, spd) ==
    /\ impl = i
    /\ portsc = [p \in Ports |->
                    [ccs |-> p \in boot, csc |-> p \in boot, prc |-> FALSE,
                     pr |-> FALSE,
                     speed |-> IF p \in boot THEN spd[p] ELSE 0]]
    /\ evRing = SelectSeq([n \in 1..NumPorts |-> PortStatusChangeTrb(n - 1)],
                           LAMBDA e : (e.port_id - 1) \in boot)
    /\ cmdRing = ProducerRing_new
    /\ hwCmds = <<>>
    /\ nextSlot = 1
    /\ phase = "events"
    /\ xhc = [new_conn |-> <<>>, status_change |-> <<>>,
              cmd_callbacks |-> {}, cmd_result |-> NoCompletion,
              port_reset_callbacks |-> {}, reset_result |-> FALSE,
              port_status |-> [p \in Ports |-> "Disconnected"],
              addressing_port |-> [some |-> FALSE, flag |-> FALSE],
              current_port |-> NoPort, waiting_port |-> <<>>]
    /\ task = [pc |-> "boot", ready |-> TRUE, bootIdx |-> 0,
               port_id |-> NoPort, slot_id |-> 0]
    /\ addrOut = <<>>
    /\ steps = [p \in Ports |-> <<>>]

\* initialize_xhci has run: any set of ports has a device attached
AddrStart ==
    \E i \in Impls, boot \in SUBSET Ports, spd \in [Ports -> Speeds] :
        AddrConstruct(i, boot, spd)

\* initialize_xhci has run with no device attached
AddrIdle ==
    AddrConstruct("xhci", {}, [p \in Ports |-> 1])

\* ---- the controller ----

\* a device is attached to port p: CCS and CSC are set, an event is posted
HwConnect(p, s) ==
    /\ ~portsc[p].ccs
    /\ portsc' = [portsc EXCEPT ![p].ccs = TRUE, ![p].csc = TRUE,
                                ![p].speed = s]
    /\ evRing' = IF portsc[p].csc THEN evRing
                 ELSE Append(evRing, PortStatusChangeTrb(p))
    /\ UNCHANGED <<impl, cmdRing, hwCmds, nextSlot, phase, xhc, task,
                   addrOut, steps>>

\* the port reset of port p ends: PR drops, PRC is set, an event is posted
HwResetDone(p) ==
    /\ portsc[p].pr
    /\ portsc' = [portsc EXCEPT ![p].pr = FALSE, ![p].prc = TRUE]
    /\ evRing' = IF portsc[p].prc THEN evRing
                 ELSE Append(evRing, PortStatusChangeTrb(p))
    /\ UNCHANGED <<impl, cmdRing, hwCmds, nextSlot, phase, xhc, task,
                   addrOut, steps>>

\* the controller executes the oldest command TRB and posts its completion;
\* a successful EnableSlot hands out the next free slot
HwCommand(code) ==
    /\ hwCmds # <<>>
    /\ LET c == Head(hwCmds)
           enable == c.kind = "EnableSlot"
           slot_id == IF enable
                      THEN (IF code = "Success" THEN nextSlot ELSE 0)
                      ELSE c.slot_id
       IN /\ hwCmds' = Tail(hwCmds)
          /\ nextSlot' = IF enable /\ code = "Success"
                         THEN nextSlot + 1 ELSE nextSlot
          /\ evRing' = Append(evRing,
                              CommandCompletionTrb(c.ptr, code, slot_id))
    /\ UNCHANGED <<impl, portsc, cmdRing, phase, xhc, task, addrOut, steps>>

\* ---- the driver: event ring drain ----

\* a waker wakes the port task: the executor queues it again
wake(st) ==
    [st EXCEPT !.task.ready = TRUE]

\* Sender::send on a channel the port task receives from
channel_send(st, chan, v) ==
    LET st1 == [st EXCEPT !.xhc[chan] = push_back(@, v)] IN
    IF st.task.pc = "recv" THEN wake(st1) ELSE st1

\* XhciController::process_event, CommandCompletion
xhci_command_completion(st, trb) ==
    LET st1 == [st EXCEPT !.cmdRing = set_deque_ptr(@, trb.ptr)] IN
    IF trb.ptr \in st.xhc.cmd_callbacks
    THEN wake([st1 EXCEPT !.xhc.cmd_callbacks = @ \ {trb.ptr},
                          !.xhc.cmd_result = trb])
    ELSE st1

\* XhciController::process_event, PortStatusChange
xhci_port_status_change(st, trb) ==
    LET port_id == trb.port_id - 1
        sc == st.portsc[port_id]
    IN
    IF sc.csc /\ sc.ccs
    THEN channel_send([st EXCEPT !.portsc[port_id].csc = FALSE],
                      "new_conn", port_id)
    ELSE IF sc.prc
    THEN LET st1 == Log([st EXCEPT !.portsc[port_id].prc = FALSE],
                        port_id, "PortResetChange", 0, "None")
         IN IF port_id \in st.xhc.port_reset_callbacks
            THEN wake([st1 EXCEPT !.xhc.port_reset_callbacks =
                                      @ \ {port_id},
                                  !.xhc.reset_result = TRUE])
            ELSE st1
    ELSE st

\* CommandRing::on_command_completion
on_command_completion(st, trb) ==
    IF trb.ptr \in st.xhc.cmd_callbacks
    THEN wake([st EXCEPT !.xhc.cmd_callbacks = @ \ {trb.ptr},
                         !.xhc.cmd_result = trb])
    ELSE st

\* the receiver of EventRing's cmd_listener hands each completion to
\* CommandRing::on_command_completion
cmd_listener_deliver(st, trb) ==
    on_command_completion(st, trb)

\* EventRing::process_event
action_process_event(st, trb) ==
    IF trb.type = "CommandCompletion"
    THEN cmd_listener_deliver(st, trb)
    ELSE channel_send(st, "status_change", trb)

\* XhciController::process_event
xhci_process_event(st, trb) ==
    IF trb.type = "CommandCompletion"
    THEN xhci_command_completion(st, trb)
    ELSE xhci_port_status_change(st, trb)

\* the kernel main loop gets Message::Xhci and calls run_xhci_tasks
Interrupt ==
    /\ phase = "idle"
    /\ evRing # <<>>
    /\ phase' = "events"
    /\ UNCHANGED <<impl, portsc, evRing, cmdRing, hwCmds, nextSlot, xhc,
                   task, addrOut, steps>>

\* one round of the loop of process_events / on_xhc_interrupt
ProcessEvent ==
    /\ phase = "events"
    /\ evRing # <<>>
    /\ evRing' = Tail(evRing)
    /\ Commit(IF impl = "xhci"
              THEN xhci_process_event(AddrSt, Head(evRing))
              ELSE action_process_event(AddrSt, Head(evRing)))
    /\ UNCHANGED <<impl, nextSlot, phase>>

\* the event ring is drained: ERDP is written, the executor takes over
EndEvents ==
    /\ phase = "events"
    /\ evRing = <<>>
    /\ phase' = "tasks"
    /\ UNCHANGED <<impl, portsc, evRing, cmdRing, hwCmds, nextSlot, xhc,
                   task, addrOut, steps>>

\* has_next_task is false: run_xhci_tasks returns
EndTasks ==
    /\ phase = "tasks"
    /\ ~task.ready
    /\ phase' = "idle"
    /\ UNCHANGED <<impl, portsc, evRing, cmdRing, hwCmds, nextSlot, xhc,
                   task, addrOut, steps>>

\* ---- the driver: the port task ----

\* the executor polls the port task, which stands at await point pc
Polled(i, pc) ==
    /\ phase = "tasks"
    /\ impl = i
    /\ task.ready
    /\ task.pc = pc

\* the poll returns Pending: the task leaves the executor's queue
pending(st) ==
    [st EXCEPT !.task.ready = FALSE]

\* the task's future returns: the executor drops it
task_end(st) ==
    [st EXCEPT !.task.pc = "done", !.task.ready = FALSE]

\* push_cmd_trb then wait_cmd_completion / CommandRing::push_command
push_command(st, trb) ==
    LET res == push(st.cmdRing, trb.slot_id) IN
    IF res.ok
    THEN [ok |-> TRUE,
          st |-> [st EXCEPT !.cmdRing = res.ring,
                            !.hwCmds = Append(@, [trb EXCEPT !.ptr = res.ptr]),
                            !.xhc.cmd_callbacks = @ \cup {res.ptr}]]
    ELSE [ok |-> FALSE, st |-> st]

\* reset_port_async up to its await / DeviceInitAction::reset_port
reset_port(st, port_id) ==
    Log([st EXCEPT !.portsc[port_id].pr = TRUE],
        port_id, "PortReset", 0, "None")

\* the reset test of main_loop with the current_port test left out
should_start_reset_any(current_port, waiting_port) ==
    waiting_port # <<>>

\* DeviceInitAction::main_loop: whether the next waiting port is reset now
should_start_reset(current_port, waiting_port) ==
    current_port = NoPort /\ waiting_port # <<>>

\* DeviceInitAction::main_loop, the end of one round of the loop
action_loop_tail(st) ==
    IF should_start_reset(st.xhc.current_port, st.xhc.waiting_port)
    THEN LET port_id == Head(st.xhc.waiting_port) IN
         reset_port([st EXCEPT !.xhc.current_port = port_id,
                               !.xhc.waiting_port = Tail(@)],
                    port_id)
    ELSE st

\* the addressing call returns to the boot scan or to the receive loop
init_return(st) ==
    IF st.task.bootIdx < NumPorts
    THEN [st EXCEPT !.task.pc = "boot", !.task.bootIdx = @ + 1]
    ELSE IF impl = "xhci"
    THEN [st EXCEPT !.task.pc = "recv"]
    ELSE action_loop_tail([st EXCEPT !.task.pc = "recv"])

\* the addressing call returns Err: `?` ends the port task of initialize_xhci,
\* main_loop drops the result
init_failed(st) ==
    IF impl = "xhci" THEN task_end(st) ELSE init_return(st)

\* enable_slot_async up to its await
enable_slot_start(st) ==
    LET r == push_command(st, EnableSlotTrb) IN
    IF r.ok
    THEN LogTrb([r.st EXCEPT !.task.pc = "wait_slot"],
                st.task.port_id, EnableSlotTrb)
    ELSE init_failed(st)

\* address_device_async up to its await
address_device_start(st, slot_id) ==
    LET trb == AddressDeviceTrb(st, st.task.port_id, slot_id)
        r == push_command(st, trb)
    IN
    IF r.ok
    THEN LogTrb([r.st EXCEPT !.task.pc = "wait_addr"], st.task.port_id, trb)
    ELSE init_failed(st)

\* initialize_xhci, port task: one round of the loop over the ports
PortTaskBoot ==
    /\ Polled("xhci", "boot")
    /\ LET st == AddrSt
           port_id == task.bootIdx
       IN
       IF port_id = NumPorts
       THEN Commit([st EXCEPT !.task.pc = "recv"])
       ELSE IF portsc[port_id].ccs
       THEN Commit([st EXCEPT !.portsc[port_id].csc = FALSE,
                              !.task.port_id = port_id,
                              !.task.pc = "init"])
       ELSE Commit([st EXCEPT !.task.bootIdx = @ + 1])
    /\ UNCHANGED <<impl, evRing, nextSlot, phase>>

\* initialize_xhci, port task: one round of the receive loop
PortTaskReceive ==
    /\ Polled("xhci", "recv")
    /\ LET st == AddrSt IN
       IF xhc.new_conn = <<>>
       THEN Commit(pending(st))
       ELSE LET port_id == Head(xhc.new_conn)
                st1 == [st EXCEPT !.xhc.new_conn = pop_front(@).rest]
            IN IF xhc.port_status[port_id] = "Disconnected"
               THEN Commit([st1 EXCEPT !.task.port_id = port_id,
                                       !.task.pc = "init"])
               ELSE Commit(st1)
    /\ UNCHANGED <<impl, evRing, nextSlot, phase>>

\* init_device_exclusive_async up to the await in reset_port_async
InitDeviceExclusive ==
    /\ Polled("xhci", "init")
    /\ LET port_id == task.port_id
           st == [AddrSt EXCEPT !.xhc.port_status[port_id] = "Connected"]
           latch == xhc.addressing_port
       IN
       IF latch.some /\ ~latch.flag
       THEN Commit(pending(st))
       ELSE Commit(reset_port(
                [st EXCEPT !.xhc.addressing_port =
                               [some |-> TRUE, flag |-> FALSE],
                           !.xhc.port_reset_callbacks = @ \cup {port_id},
                           !.task.pc = "wait_reset"],
                port_id))
    /\ UNCHANGED <<impl, evRing, nextSlot, phase>>

\* init_device_exclusive_async from wait_port_reset to enable_slot_async
WaitPortReset ==
    /\ Polled("xhci", "wait_reset")
    /\ LET st == AddrSt IN
       IF xhc.reset_result
       THEN Commit(enable_slot_start([st EXCEPT !.xhc.reset_result = FALSE]))
       ELSE Commit(pending(st))
    /\ UNCHANGED <<impl, evRing, nextSlot, phase>>

\* enable_slot_async from its await to the await of address_device_async
WaitEnableSlot ==
    /\ phase = "tasks"
    /\ task.ready
    /\ task.pc = "wait_slot"
    /\ LET st == AddrSt
           result == xhc.cmd_result
       IN
       IF result # NoCompletion
       THEN Commit(address_device_start(
                Log([st EXCEPT !.xhc.cmd_result = NoCompletion,
                               !.task.slot_id = result.slot_id],
                    task.port_id, "SlotCompletion", result.slot_id,
                    result.code),
                result.slot_id))
       ELSE Commit(pending(st))
    /\ UNCHANGED <<impl, evRing, nextSlot, phase>>

\* the latch of init_device_exclusive_async is released: send.send()
latch_send(st) ==
    IF impl = "xhci"
    THEN [st EXCEPT !.xhc.addressing_port.flag = TRUE]
    ELSE st

\* notify_address_device_completion / address_device_listener.send
notify_address_device_completion(st, slot_id) ==
    Log([st EXCEPT !.addrOut = push_back(@, slot_id)],
        st.task.port_id, "Notify", slot_id, "None")

\* address_device_async from its await to the end of the addressing call
WaitAddressDevice ==
    /\ phase = "tasks"
    /\ task.ready
    /\ task.pc = "wait_addr"
    /\ LET st == AddrSt
           result == xhc.cmd_result
       IN
       IF result # NoCompletion
       THEN LET st1 == Log([st EXCEPT !.xhc.cmd_result = NoCompletion],
                           task.port_id, "AddressCompletion", task.slot_id,
                           result.code)
            IN IF result.code = "Success"
               THEN Commit(init_return(notify_address_device_completion(
                               latch_send(st1), task.slot_id)))
               ELSE Commit(init_failed(st1))
       ELSE Commit(pending(st))
    /\ UNCHANGED <<impl, evRing, nextSlot, phase>>

\* DeviceInitAction::main_loop: one round of the loop over the ports
ActionBoot ==
    /\ Polled("action", "boot")
    /\ LET st == AddrSt
           port_id == task.bootIdx
       IN
       IF port_id = NumPorts
       THEN Commit([st EXCEPT !.task.pc = "recv"])
       ELSE IF portsc[port_id].ccs
       THEN Commit(enable_slot_start(
                [st EXCEPT !.portsc[port_id].csc = FALSE,
                           !.task.port_id = port_id]))
       ELSE Commit([st EXCEPT !.task.bootIdx = @ + 1])
    /\ UNCHANGED <<impl, evRing, nextSlot, phase>>

\* DeviceInitAction::main_loop: one round of the receive loop
ActionReceive ==
    /\ Polled("action", "recv")
    /\ LET st == AddrSt IN
       IF xhc.status_change = <<>>
       THEN Commit(pending(st))
       ELSE LET event == Head(xhc.status_change)
                port_id == event.port_id - 1
                sc == portsc[port_id]
                st1 == [st EXCEPT !.xhc.status_change = pop_front(@).rest]
            IN
            IF sc.csc /\ sc.ccs
            THEN Commit(action_loop_tail(
                     [st1 EXCEPT !.portsc[port_id].csc = FALSE,
                                 !.xhc.waiting_port = Append(@, port_id)]))
            ELSE IF sc.prc
            THEN LET st2 == Log([st1 EXCEPT !.portsc[port_id].prc = FALSE],
                                port_id, "PortResetChange", 0, "None")
                 IN IF xhc.current_port = port_id
                    THEN Commit(enable_slot_start(
                             [st2 EXCEPT !.task.port_id = port_id]))
                    ELSE Commit(action_loop_tail(st2))
            ELSE Commit(action_loop_tail(st1))
    /\ UNCHANGED <<impl, evRing, nextSlot, phase>>

AddrNext ==
    \/ \E p \in Ports, s \in Speeds : HwConnect(p, s)
    \/ \E p \in Ports : HwResetDone(p)
    \/ \E code \in {"Success", "TrbError"} : HwCommand(code)
    \/ Interrupt
    \/ ProcessEvent
    \/ EndEvents
    \/ EndTasks
    \/ PortTaskBoot
    \/ PortTaskReceive
    \/ InitDeviceExclusive
    \/ WaitPortReset
    \/ WaitEnableSlot
    \/ WaitAddressDevice
    \/ ActionBoot
    \/ ActionReceive

(***************************************************************************)
(* usb/ring/transfer.rs and usb/xhci.rs: transfer rings, control requests  *)
(* and the handling of TransferEvent                                       *)
(*                                                                         *)
(* TransferRingSet (control_request, push_transfer_trb, on_trf_event) and  *)
(* XhciController (control_request, push_transfer_trb_async, the           *)
(* TransferEvent arm of process_event) hold the same logic; it is modelled *)
(* once.  A TRB address is the triple <<slot, endpoint, index in the ring>>.*)
(***************************************************************************)

\* device slots with a transfer ring for their default control endpoint:
\* the first two slot ids the controller hands out
Slots == {1, 2}

\* control requests per behaviour: enough for a ring to wrap
MaxCalls == 12

\* endpoint id (DCI) of the default control pipe
ControlEndpoint == 1

\* the rings init_trf_ring / init_ring_at created
TrfKeys == {<<slot_id, ControlEndpoint>> : slot_id \in Slots}

\* completion codes a TransferEvent can carry
TransferCodes == {"Success", "ShortPacket", "StallError"}

\* ControlRequestType::get_actual_value: (bmRequestType, bRequest)
get_actual_value(request_type) ==
    CASE request_type = "GetDescriptor"    -> <<128, 6>>
      [] request_type = "SetConfigutation" -> <<0, 9>>
      [] request_type = "SetProtocol"      -> <<33, 11>>
      [] request_type = "SetInterface"     -> <<1, 11>>

ControlRequestTypes ==
    {"GetDescriptor", "SetConfigutation", "SetProtocol", "SetInterface"}

\* the SetupData values the callers pass: wValue and wIndex 0, wLength 0 or
\* the size of a buffer
SetupDatas ==
    [request_type : ControlRequestTypes, value : {0}, index : {0},
     length : {0, 18}]

\* control_request: direction_bit
direction_bit(req_type) ==
    IF req_type \div 128 = 1 THEN "DeviceToHost" ELSE "HostToDevice"

\* control_request with the status stage of a request without data taken
\* from the direction of the request
stage_directions_by_request(dir, length) ==
    CASE dir = "HostToDevice" /\ length = 0 ->
             [setup_transfer_type |-> "No", data_dir |-> "Out",
              status_dir |-> "HostToDevice"]
      [] dir = "HostToDevice" /\ length # 0 ->
             [setup_transfer_type |-> "Out", data_dir |-> "Out",
              status_dir |-> "DeviceToHost"]
      [] dir = "DeviceToHost" /\ length = 0 ->
             [setup_transfer_type |-> "No", data_dir |-> "In",
              status_dir |-> "DeviceToHost"]
      [] dir = "DeviceToHost" /\ length # 0 ->
             [setup_transfer_type |-> "In", data_dir |-> "In",
              status_dir |-> "HostToDevice"]

\* control_request: (setup_transfer_type, data_dir, status_dir)
stage_directions(dir, length) ==
    CASE dir = "HostToDevice" /\ length = 0 ->
             [setup_transfer_type |-> "No", data_dir |-> "Out",
              status_dir |-> "DeviceToHost"]
      [] dir = "HostToDevice" /\ length # 0 ->
             [setup_transfer_type |-> "Out", data_dir |-> "Out",
              status_dir |-> "DeviceToHost"]
      [] dir = "DeviceToHost" /\ length = 0 ->
             [setup_transfer_type |-> "No", data_dir |-> "In",
              status_dir |-> "DeviceToHost"]
      [] dir = "DeviceToHost" /\ length # 0 ->
             [setup_transfer_type |-> "In", data_dir |-> "In",
              status_dir |-> "HostToDevice"]

\* a transfer TRB; the fields a stage does not have are "None" or 0
TransferTrb(kind, req_type, req, value, index, length, ttype, dir, ioc, isp) ==
    [kind |-> kind, request_type |-> req_type, request |-> req,
     value |-> value, index |-> index, length |-> length,
     transfer_type |-> ttype, direction |-> dir,
     ioc |-> ioc, isp |-> isp]

\* control_request: the SetupStage TRB
setup_stage(setup) ==
    LET rv == get_actual_value(setup.request_type)
        d == stage_directions(direction_bit(rv[1]), setup.length)
    IN TransferTrb("SetupStage", rv[1], rv[2], setup.value, setup.index,
                   setup.length, d.setup_transfer_type, "None", TRUE, FALSE)

\* control_request: the DataStage TRB
data_stage(setup) ==
    LET rv == get_actual_value(setup.request_type)
        d == stage_directions(direction_bit(rv[1]), setup.length)
    IN TransferTrb("DataStage", 0, 0, 0, 0, setup.length, "None",
                   d.data_dir, TRUE, TRUE)

\* control_request: the StatusStage TRB; set_direction() makes it an IN stage
status_stage(setup) ==
    LET rv == get_actual_value(setup.request_type)
        d == stage_directions(direction_bit(rv[1]), setup.length)
    IN TransferTrb("StatusStage", 0, 0, 0, 0, 0, "None",
                   IF d.status_dir = "DeviceToHost" THEN "In" ELSE "Out",
                   TRUE, FALSE)

\* the transfer side of the driver as one record
TrfSt ==
    [rings |-> trfRings, listener |-> trfListener, hw |-> hwTrbs,
     pushed |-> <<>>, bells |-> <<>>]

\* new rings, no listener
TrfStart ==
    /\ trfRings = [k \in TrfKeys |-> ProducerRing_new]
    /\ trfListener = {}
    /\ hwTrbs = [k \in TrfKeys |-> <<>>]
    /\ trfCalls = 0
    /\ trfRes = [op |-> "none"]

\* push_transfer_trb / push_transfer_trb_async: the TRB goes on the ring of
\* (slot_id, endpoint_id); a oneshot is registered at its address when it
\* interrupts
push_transfer_trb(st, slot_id, endpoint_id, trb) ==
    LET key == <<slot_id, endpoint_id>>
        res == push(st.rings[key], 0)
        ptr == <<slot_id, endpoint_id, res.ptr>>
        int_on_short_packet == trb.kind = "DataStage" /\ trb.isp
        armed == trb.ioc \/ int_on_short_packet
    IN
    IF ~res.ok
    THEN [ok |-> FALSE, some |-> FALSE, ptr |-> ptr, st |-> st]
    ELSE [ok |-> TRUE, some |-> armed, ptr |-> ptr,
          st |-> [st EXCEPT
                    !.rings[key] = res.ring,
                    !.hw[key] = Append(@, res.ptr),
                    !.pushed = Append(@, [trb |-> trb, ptr |-> ptr]),
                    !.listener = IF armed THEN @ \cup {ptr} ELSE @]]

\* ring_doorbell(slot_id, target)
ring_doorbell(st, slot_id, target) ==
    [st EXCEPT !.bells = Append(@, [slot_id |-> slot_id, target |-> target,
                                    pushes |-> Len(st.pushed)])]

\* the result of control_request: Ok(receiver registered at ptr) or Err
ControlResult(ok, ptr, st) ==
    [ok |-> ok, ptr |-> ptr, st |-> st]

\* control_request of a request without data that returns the oneshot of
\* the status stage
control_request_status_oneshot(st, slot_id, setup) ==
    LET r1 == push_transfer_trb(st, slot_id, ControlEndpoint,
                                setup_stage(setup))
        r2 == push_transfer_trb(r1.st, slot_id, ControlEndpoint,
                                status_stage(setup))
    IN IF ~r1.ok THEN ControlResult(FALSE, r1.ptr, r1.st)
       ELSE IF ~r2.ok THEN ControlResult(FALSE, r2.ptr, r2.st)
       ELSE ControlResult(TRUE, r2.ptr,
                          ring_doorbell(r2.st, slot_id, ControlEndpoint))

\* control_request, setup.length == 0
control_request_no_data(st, slot_id, setup) ==
    LET r1 == push_transfer_trb(st, slot_id, ControlEndpoint,
                                setup_stage(setup))
        r2 == push_transfer_trb(r1.st, slot_id, ControlEndpoint,
                                status_stage(setup))
    IN IF ~r1.ok THEN ControlResult(FALSE, r1.ptr, r1.st)
       ELSE IF ~r2.ok THEN ControlResult(FALSE, r2.ptr, r2.st)
       ELSE ControlResult(TRUE, r1.ptr,
                          ring_doorbell(r2.st, slot_id, ControlEndpoint))

\* control_request, setup.length > 0
control_request_data(st, slot_id, setup) ==
    LET r1 == push_transfer_trb(st, slot_id, ControlEndpoint,
                                setup_stage(setup))
        r2 == push_transfer_trb(r1.st, slot_id, ControlEndpoint,
                                data_stage(setup))
        r3 == push_transfer_trb(r2.st, slot_id, ControlEndpoint,
                                status_stage(setup))
    IN IF ~r1.ok THEN ControlResult(FALSE, r1.ptr, r1.st)
       ELSE IF ~r2.ok THEN ControlResult(FALSE, r2.ptr, r2.st)
       ELSE IF ~r3.ok THEN ControlResult(FALSE, r3.ptr, r3.st)
       ELSE ControlResult(TRUE, r2.ptr,
                          ring_doorbell(r3.st, slot_id, ControlEndpoint))

\* TransferRingSet::control_request / XhciController::control_request
control_request(st, slot_id, setup) ==
    IF setup.length = 0
    THEN control_request_no_data(st, slot_id, setup)
    ELSE control_request_data(st, slot_id, setup)

\* on_trf_event that takes only Success for a completed transfer
transfer_result_success_only(code) ==
    IF code = "Success" THEN "Ok" ELSE "Err"

\* on_trf_event / process_event: the result sent to the oneshot
transfer_result(code) ==
    IF code \in {"Success", "ShortPacket"} THEN "Ok" ELSE "Err"

\* event TRB TransferEvent for the transfer TRB at index of ring
\* (slot_id, endpoint_id)
TransferEventTrb(slot_id, endpoint_id, index, code) ==
    [type |-> "TransferEvent", slot_id |-> slot_id,
     endpoint_id |-> endpoint_id, index |-> index, code |-> code]

\* TransferRingSet::on_trf_event / process_event (TransferEvent)
on_trf_event(st, evt) ==
    LET key == <<evt.slot_id, evt.endpoint_id>>
        ptr == <<evt.slot_id, evt.endpoint_id, evt.index>>
        st1 == [st EXCEPT !.rings[key] = set_deque_ptr(@, evt.index)]
    IN
    IF ptr \in st.listener
    THEN [st |-> [st1 EXCEPT !.listener = @ \ {ptr}],
          sent |-> {[ptr |-> ptr, result |-> transfer_result(evt.code)]}]
    ELSE [st |-> st1, sent |-> {}]

\* the device of the first slot gets requests all the time, every other
\* device gets one request
MayRequest(slot_id) ==
    \/ slot_id = 1
    \/ trfRings[<<slot_id, ControlEndpoint>>] = ProducerRing_new

\* a driver task calls control_request for its slot; it awaited the oneshot
\* of its previous request, so at most the status stage of that one is left
ControlRequest(slot_id, setup) ==
    /\ trfCalls < MaxCalls
    /\ MayRequest(slot_id)
    /\ Len(hwTrbs[<<slot_id, ControlEndpoint>>]) <= 1
    /\ LET r == control_request(TrfSt, slot_id, setup) IN
       /\ trfRings' = r.st.rings
       /\ trfListener' = r.st.listener
       /\ hwTrbs' = r.st.hw
       /\ trfRes' = [op |-> "control_request", slot_id |-> slot_id,
                     setup |-> setup, ok |-> r.ok, ptr |-> r.ptr,
                     pushed |-> r.st.pushed, bells |-> r.st.bells]
    /\ trfCalls' = trfCalls + 1

\* the controller executes the oldest TRB of a ring and posts its
\* TransferEvent; the event ring drain hands it to on_trf_event
TransferEvent(key, code) ==
    /\ hwTrbs[key] # <<>>
    /\ LET evt == TransferEventTrb(key[1], key[2], Head(hwTrbs[key]), code)
           st == [TrfSt EXCEPT !.hw[key] = Tail(@)]
           r == on_trf_event(st, evt)
       IN /\ trfRings' = r.st.rings
          /\ trfListener' = r.st.listener
          /\ hwTrbs' = r.st.hw
          /\ trfRes' = [op |-> "event", evt |-> evt,
                        had |-> <<key[1], key[2], evt.index>> \in trfListener,
                        kept |-> r.st.listener \cup
                                     {<<key[1], key[2], evt.index>>}
                                 = trfListener \cup
                                     {<<key[1], key[2], evt.index>>},
                        sent |-> r.sent,
                        others |-> \A k \in TrfKeys \ {key} :
                                      r.st.rings[k] = trfRings[k]]
    /\ UNCHANGED trfCalls

TrfNext ==
    \/ \E slot_id \in Slots, setup \in SetupDatas :
           ControlRequest(slot_id, setup)
    \/ \E key \in TrfKeys, code \in TransferCodes : TransferEvent(key, code)

\* control_request is called for the first slot whatever is left on its
\* ring: by a caller that does not wait for the oneshot of its previous
\* request, or with a controller that has stopped completing transfers
ControlRequestBusy(setup) ==
    /\ trfCalls < MaxCalls
    /\ LET r == control_request(TrfSt, 1, setup) IN
       /\ trfRings' = r.st.rings
       /\ trfListener' = r.st.listener
       /\ hwTrbs' = r.st.hw
       /\ trfRes' = [op |-> "control_request", slot_id |-> 1,
                     setup |-> setup, ok |-> r.ok, ptr |-> r.ptr,
                     pushed |-> r.st.pushed, bells |-> r.st.bells,
                     before |-> [rings |-> trfRings,
                                 listener |-> trfListener]]
    /\ trfCalls' = trfCalls + 1

TrfBusyNext ==
    \/ \E setup \in SetupDatas : ControlRequestBusy(setup)
    \/ \E key \in TrfKeys, code \in TransferCodes : TransferEvent(key, code)

(***************************************************************************)
(* usb/xhci.rs and usb/ring/command.rs, usb/ring/event.rs: the command     *)
(* ring under a caller that issues one command at a time, and the event     *)
(* ring drain with event TRBs of every type                                *)
(***************************************************************************)

\* commands per behaviour: more than the command ring has slots
MaxCmds == 32

\* event TRB types process_event has no code for
OtherEventTypes ==
    {"BandwidthRequest", "Doorbell", "HostController", "DeviceNotification",
     "MfindexWrap"}

\* an event TRB of one of the other types
OtherEventTrb(type) ==
    [type |-> type, port_id |-> 0, ptr |-> -1, code |-> "None",
     slot_id |-> 0]

\* the command side of the driver and its one caller
CmdStart ==
    /\ cmdImpl \in Impls
    /\ cmdSt = [cmdRing |-> ProducerRing_new, hwCmds |-> <<>>,
                xhc |-> [cmd_callbacks |-> {}, cmd_result |-> NoCompletion],
                task |-> [pc |-> "issue", ready |-> TRUE]]
    /\ cmdEvents = <<>>
    /\ cmdSlot = 1
    /\ cmdCount = 0
    /\ cmdHalted = FALSE
    /\ cmdRes = [op |-> "none"]

\* the driver of initialize_xhci before any command
CmdIdle ==
    /\ cmdImpl = "xhci"
    /\ cmdSt = [cmdRing |-> ProducerRing_new, hwCmds |-> <<>>,
                xhc |-> [cmd_callbacks |-> {}, cmd_result |-> NoCompletion],
                task |-> [pc |-> "issue", ready |-> TRUE]]
    /\ cmdEvents = <<>>
    /\ cmdSlot = 1
    /\ cmdCount = 0
    /\ cmdHalted = FALSE
    /\ cmdRes = [op |-> "none"]

\* the caller's previous command was completed and its completion processed
PreviousCompleted ==
    /\ cmdSt.hwCmds = <<>>
    /\ cmdSt.xhc.cmd_callbacks = {}
    /\ \A i \in 1..Len(cmdEvents) : cmdEvents[i].type # "CommandCompletion"

\* the caller pushes an EnableSlot command: enable_slot_async up to its
\* await
IssueCommand ==
    /\ ~cmdHalted
    /\ cmdCount < MaxCmds
    /\ PreviousCompleted
    /\ LET r == push_command(cmdSt, EnableSlotTrb) IN
       /\ cmdSt' = [r.st EXCEPT !.xhc.cmd_result = NoCompletion,
                                !.task.pc = IF r.ok THEN "wait" ELSE "issue"]
       /\ cmdRes' = [op |-> "push", ok |-> r.ok, ptr |-> -1,
                     slot_id |-> 0, had |-> FALSE]
    /\ cmdCount' = cmdCount + 1
    /\ UNCHANGED <<cmdImpl, cmdEvents, cmdSlot, cmdHalted>>

\* the controller executes the command and posts its CommandCompletion
CompleteCommand(code) ==
    /\ ~cmdHalted
    /\ cmdSt.hwCmds # <<>>
    /\ LET c == Head(cmdSt.hwCmds)
           slot_id == IF code = "Success" THEN cmdSlot ELSE 0
       IN /\ cmdSt' = [cmdSt EXCEPT !.hwCmds = Tail(@)]
          /\ cmdSlot' = IF code = "Success" THEN cmdSlot + 1 ELSE cmdSlot
          /\ cmdEvents' = Append(cmdEvents,
                                 CommandCompletionTrb(c.ptr, code, slot_id))
    /\ UNCHANGED <<cmdImpl, cmdCount, cmdHalted, cmdRes>>

\* the controller posts an event of another type
PostOtherEvent(type) ==
    /\ ~cmdHalted
    /\ \A i \in 1..Len(cmdEvents) : cmdEvents[i].type \notin OtherEventTypes
    /\ cmdEvents' = Append(cmdEvents, OtherEventTrb(type))
    /\ UNCHANGED <<cmdImpl, cmdSt, cmdSlot, cmdCount, cmdHalted, cmdRes>>

\* process_event of either version for one event TRB: todo!() panics for
\* the types without code, and the panic handler halts the kernel
drain_event(i, st, trb) ==
    IF trb.type \in OtherEventTypes
    THEN [halted |-> TRUE, st |-> st]
    ELSE [halted |-> FALSE,
          st |-> IF i = "xhci" THEN xhci_process_event(st, trb)
                 ELSE action_process_event(st, trb)]

\* one round of the loop of process_events / on_xhc_interrupt
DrainEvent ==
    /\ ~cmdHalted
    /\ cmdEvents # <<>>
    /\ LET trb == Head(cmdEvents)
           r == drain_event(cmdImpl, cmdSt, trb)
       IN /\ cmdSt' = r.st
          /\ cmdHalted' = r.halted
          /\ cmdRes' = [op |-> trb.type, ok |-> ~r.halted, ptr |-> trb.ptr,
                        slot_id |-> trb.slot_id,
                        had |-> trb.ptr \in cmdSt.xhc.cmd_callbacks]
    /\ cmdEvents' = Tail(cmdEvents)
    /\ UNCHANGED <<cmdImpl, cmdSlot, cmdCount>>

CmdNext ==
    \/ IssueCommand
    \/ \E code \in {"Success", "TrbError"} : CompleteCommand(code)
    \/ \E type \in OtherEventTypes : PostOtherEvent(type)
    \/ DrainEvent

(***************************************************************************)
(* memory_manager.rs: BitMapMemoryManager, the physical frame allocator    *)
(***************************************************************************)

BYTES_PER_FRAME == 4096

UEFI_PAGE_SIZE == 4096

\* largest number of runs the callers hold at one time
MaxHeld == 2

\* pages of the longest descriptor of the small memory maps
MaxPages == 3

\* is_available that takes every descriptor for usable memory
is_available_all(desc) ==
    TRUE

\* MemoryDescriptor::is_available
is_available(desc) ==
    desc.type_ \in {"EfiBootServicesCode", "EfiBootServicesData",
                    "EfiConventionalMemory"}

\* a MemoryDescriptor that starts at page first and has num_pages pages
MemoryDescriptor(first, num_pages, type_) ==
    [physical_start |-> first * UEFI_PAGE_SIZE, num_pages |-> num_pages,
     type_ |-> type_]

\* conventional 0x100000..0x200000, reserved 0x200000..0x201000,
\* conventional 0x201000..0x400000
ScenarioMap ==
    <<MemoryDescriptor(256, 256, "EfiConventionalMemory"),
      MemoryDescriptor(512, 1, "EfiReservedMemoryType"),
      MemoryDescriptor(513, 511, "EfiConventionalMemory")>>

\* small memory maps, sorted by address as the boot loader passes them:
\* available memory from page first, with or without a reserved page in it
SmallMaps ==
    {<<MemoryDescriptor(first, MaxPages + 1, "EfiConventionalMemory")>> :
         first \in 0..1}
    \cup
    {<<MemoryDescriptor(0, a, "EfiBootServicesData"),
       MemoryDescriptor(a, 1, "EfiReservedMemoryType"),
       MemoryDescriptor(a + 1, MaxPages, "EfiConventionalMemory")>> :
         a \in 1..2}
    \cup
    {<<MemoryDescriptor(0, 2, "EfiConventionalMemory"),
       MemoryDescriptor(3, MaxPages, "EfiBootServicesCode")>>}

MemoryMaps ==
    {ScenarioMap} \cup SmallMaps

\* BitMapMemoryManager::mark_allocated; alloc_map is the set of the frames
\* whose bit is 1
mark_allocated(alloc_map, from, nframes) ==
    alloc_map \cup (from..(from + nframes - 1))

\* BitMapMemoryManager::get_bit
get_bit(alloc_map, frame) ==
    frame \in alloc_map

\* BitMapMemoryManager::new_at: the loop over the descriptors from the i-th
RECURSIVE new_at_entries(_, _, _, _)
new_at_entries(map, i, alloc_map, available_end) ==
    IF i > Len(map)
    THEN [alloc_map |-> alloc_map,
          available_range |-> <<1, available_end \div BYTES_PER_FRAME>>]
    ELSE
        LET desc == map[i]
            gap == IF available_end < desc.physical_start
                   THEN mark_allocated(
                            alloc_map, available_end \div BYTES_PER_FRAME,
                            (desc.physical_start - available_end)
                                \div BYTES_PER_FRAME)
                   ELSE alloc_map
            physical_end ==
                desc.physical_start + desc.num_pages * UEFI_PAGE_SIZE
        IN
        IF is_available(desc)
        THEN new_at_entries(map, i + 1, gap, physical_end)
        ELSE new_at_entries(
                 map, i + 1,
                 mark_allocated(
                     gap, desc.physical_start \div BYTES_PER_FRAME,
                     (desc.num_pages * UEFI_PAGE_SIZE) \div BYTES_PER_FRAME),
                 available_end)

\* new_at whose available range starts at frame 0
new_at_from_zero(map) ==
    [new_at_entries(map, 1, {}, 0) EXCEPT !.available_range[1] = 0]

\* BitMapMemoryManager::new_at
new_at(map) ==
    new_at_entries(map, 1, {}, 0)

\* allocate: the inner loop. nfree stops at the first value that reaches
\* nframes, passes range.1 or meets a set bit
count_free(m, nframes, start) ==
    LET room == m.available_range[2] - start
        limit == IF room < 0 THEN 0
                 ELSE IF room < nframes THEN room ELSE nframes
        set == {k \in 0..(limit - 1) : get_bit(m.alloc_map, start + k)}
    IN IF limit > 0 /\ get_bit(m.alloc_map, start) THEN 0
       ELSE IF set = {} THEN limit
       ELSE CHOOSE k \in set : \A j \in set : k <= j

\* the result of allocate and the manager after it; kind "Scan" while the
\* outer loop runs, frame is then its variable start
AllocateResult(kind, frame, m) ==
    [kind |-> kind, frame |-> frame, m |-> m]

\* allocate: one round of the outer loop
allocate_round(nframes, st) ==
    IF st.kind # "Scan" THEN st
    ELSE IF ~(st.frame < st.m.available_range[2] - nframes)
    THEN AllocateResult("None", 0, st.m)
    ELSE
        LET nfree == count_free(st.m, nframes, st.frame) IN
        IF nfree = nframes
        THEN AllocateResult(
                 "Some", st.frame,
                 [st.m EXCEPT
                    !.alloc_map = mark_allocated(@, st.frame, nframes)])
        ELSE [st EXCEPT !.frame = @ + nfree + 1]

\* allocate: up to rounds rounds of the outer loop, one after the other
RECURSIVE allocate_rounds(_, _, _)
allocate_rounds(nframes, st, rounds) ==
    IF st.kind # "Scan" THEN st
    ELSE IF rounds <= 1 THEN allocate_round(nframes, st)
    ELSE allocate_rounds(
             nframes, allocate_rounds(nframes, st, rounds \div 2),
             rounds - rounds \div 2)

\* the outcomes of allocate when range.1 - nframes underflows: a panic with
\* overflow checks; without them the bound wraps to 2^64 + range.1 -
\* nframes and the loop walks up to it one frame at a time
UnderflowOutcomes ==
    {"Panic", "Spin"}

\* BitMapMemoryManager::allocate; start grows in every round of the outer
\* loop, so the loop ends within range.1 rounds
allocate(m, nframes, outcome) ==
    IF nframes > m.available_range[2]
    THEN AllocateResult(outcome, 0, m)
    ELSE allocate_rounds(nframes,
                         AllocateResult("Scan", m.available_range[1], m),
                         m.available_range[2] + 1)

\* free that leaves the first frame of the run allocated
free_tail(m, start, nframes) ==
    [m EXCEPT !.alloc_map = @ \ ((start + 1)..(start + nframes - 1))]

\* BitMapMemoryManager::free
free(m, start, nframes) ==
    [m EXCEPT !.alloc_map = @ \ (start..(start + nframes - 1))]

\* the numbers of frames the callers ask for
Sizes ==
    {0, 1, 2, 256, 512}

\* the manager as one record
Mem ==
    [alloc_map |-> allocMap, available_range |-> availableRange]

\* one entry of the history of calls
MemCall(op, start, nframes, kind, before, after) ==
    [op |-> op, start |-> start, nframes |-> nframes, kind |-> kind,
     before |-> before, after |-> after]

\* the history keeps the last two calls
Remember(hist, call) ==
    IF Len(hist) < 2 THEN Append(hist, call)
    ELSE Append(Tail(hist), call)

\* no frame
NoFrame == -1

\* where the callers are in an allocate, free, allocate of one run: the
\* run, the bitmap before its allocate and after its free, and the start
\* the allocate before the free returned
Trip(stage, start, nframes, before, after, first) ==
    [stage |-> stage, start |-> start, nframes |-> nframes,
     before |-> before, after |-> after, first |-> first]

NoTrip ==
    Trip("none", NoFrame, 0, {}, {}, NoFrame)

\* the trip after allocate(nframes) returned r
trip_allocate(trip, nframes, r, before) ==
    LET again == trip.stage = "freed" /\ trip.nframes = nframes
        first == IF again THEN trip.start ELSE NoFrame
    IN
    IF r.kind = "Some"
    THEN Trip(IF again THEN "again" ELSE "allocated", r.frame, nframes,
              before, {}, first)
    ELSE IF again
    THEN Trip("again", NoFrame, nframes, before, {}, first)
    ELSE NoTrip

\* the trip after free(run)
trip_free(trip, run, after) ==
    IF /\ trip.stage \in {"allocated", "again"}
       /\ run = <<trip.start, trip.nframes>>
    THEN Trip("freed", trip.start, trip.nframes, trip.before, after, NoFrame)
    ELSE NoTrip

\* the manager MEM right after new_at on some memory map
MemStart ==
    /\ memMap \in MemoryMaps
    /\ allocMap = new_at(memMap).alloc_map
    /\ availableRange = new_at(memMap).available_range
    /\ memHeld = {}
    /\ memHist = <<>>
    /\ memTrip = NoTrip

\* the manager right after new_at on the map of the scenario
MemIdle ==
    /\ memMap = ScenarioMap
    /\ allocMap = new_at(memMap).alloc_map
    /\ availableRange = new_at(memMap).available_range
    /\ memHeld = {}
    /\ memHist = <<>>
    /\ memTrip = NoTrip

\* the kernel stopped in allocate
MemHalted ==
    /\ memHist # <<>>
    /\ memHist[Len(memHist)].kind \in UnderflowOutcomes

\* a caller asks for nframes frames
Allocate(nframes, outcome) ==
    /\ ~MemHalted
    /\ Cardinality(memHeld) < MaxHeld
    /\ \E r \in {allocate(Mem, nframes, outcome)} :
       /\ allocMap' = r.m.alloc_map
       /\ availableRange' = r.m.available_range
       /\ memHeld' = IF r.kind = "Some"
                     THEN memHeld \cup {<<r.frame, nframes>>}
                     ELSE memHeld
       /\ memHist' = Remember(memHist,
                              MemCall("allocate", r.frame, nframes, r.kind,
                                      allocMap, r.m.alloc_map))
       /\ memTrip' = trip_allocate(memTrip, nframes, r, allocMap)
    /\ UNCHANGED memMap

\* a caller gives back a run it holds
Free(run) ==
    /\ ~MemHalted
    /\ run \in memHeld
    /\ \E m \in {free(Mem, run[1], run[2])} :
       /\ allocMap' = m.alloc_map
       /\ availableRange' = m.available_range
       /\ memHist' = Remember(memHist,
                              MemCall("free", run[1], run[2], "Done",
                                      allocMap, m.alloc_map))
       /\ memTrip' = trip_free(memTrip, run, m.alloc_map)
    /\ memHeld' = memHeld \ {run}
    /\ UNCHANGED memMap

MemNext ==
    \/ \E nframes \in Sizes :
           \E outcome \in (IF nframes > availableRange[2]
                            THEN UnderflowOutcomes ELSE {"Panic"}) :
               Allocate(nframes, outcome)
    \/ \E run \in memHeld : Free(run)

(***************************************************************************)
(* memory_manager.rs: FreeList, PageHeader and ObjectAllocator, the slab   *)
(* allocator behind the global allocator                                   *)
(***************************************************************************)

\* null_mut()
NullPtr == 0

N_BLOCK_SIZES == 6

BLOCK_SZ == <<64, 128, 256, 512, 1024, 2048>>

\* size_of::<PageHeader>(): four 8-byte fields, repr(C)
PAGE_HEADER_SIZE == 32

\* objects run_allocator_tests keeps live at once
TEST_OBJECTS == 10

\* largest number of objects the kernel keeps live at once
MaxLive == 2

\* calls of alloc and dealloc by the kernel after run_allocator_tests
MaxSlabCalls == 4

\* the layouts the callers pass: <<size, align>>
Layouts ==
    ({1, 64, 128} \X {1, 128}) \cup {<<1, 8192>>, <<2048, 1>>}

\* ObjectAllocator::new: the frames of the pages, one allocate(1) each on
\* the frame allocator right after new_at
RECURSIVE object_allocator_frames(_, _)
object_allocator_frames(m, i) ==
    IF i > N_BLOCK_SIZES THEN <<>>
    ELSE LET r == allocate(m, 1, "Panic")
         IN <<r.frame>> \o object_allocator_frames(r.m, i + 1)

SlabFrames ==
    object_allocator_frames(new_at(ScenarioMap), 1)

\* the address of the page of class i
page_head(i) ==
    SlabFrames[i] * BYTES_PER_FRAME

\* PageHeader::new_at: objs_start
objs_start(i) ==
    page_head(i)
        + ((PAGE_HEADER_SIZE + BLOCK_SZ[i] - 1) \div BLOCK_SZ[i]) * BLOCK_SZ[i]

\* the addresses of the objects of the page of class i
PageObjects(i) ==
    {page_head(i) + k * BLOCK_SZ[i] :
        k \in ((objs_start(i) - page_head(i)) \div BLOCK_SZ[i])
                  ..(BYTES_PER_FRAME \div BLOCK_SZ[i] - 1)}

ObjectAddrs ==
    UNION {PageObjects(i) : i \in 1..N_BLOCK_SIZES}

\* the first bytes of an object: an ObjectHeader while it is free, the
\* caller's data while it is live
ObjectHeader(next_free) ==
    [header |-> TRUE, next_free |-> next_free, data |-> NullPtr]

\* what a caller writes into the object it was given
CallerData(ptr) ==
    [header |-> FALSE, next_free |-> NullPtr, data |-> ptr]

\* a FreeList together with the memory its links are in
FreeList(head, mem) ==
    [head |-> head, mem |-> mem]

\* FreeList::push_front
free_list_push_front(fl, obj) ==
    FreeList(obj, [fl.mem EXCEPT ![obj] = ObjectHeader(fl.head)])

\* the result of a pop: the object or null, and the list after it
Popped(ptr, fl) ==
    [ptr |-> ptr, fl |-> fl]

\* FreeList::pop_front
free_list_pop_front(fl) ==
    IF fl.head = NullPtr THEN Popped(NullPtr, fl)
    ELSE Popped(fl.head, FreeList(fl.mem[fl.head].next_free, fl.mem))

\* alloc: is_aligned_fn
is_aligned_fn(ptr, align) ==
    ptr % align = 0

\* pop_filter: one round of the loop over the objects after the head; prev
\* is the object whose guard the loop holds, done tells that it returned
pop_filter_round(st, align) ==
    IF st.done THEN st
    ELSE LET obj == st.fl.mem[st.prev].next_free IN
         IF obj = NullPtr
         THEN [st EXCEPT !.done = TRUE, !.ptr = NullPtr]
         ELSE IF is_aligned_fn(obj, align)
         THEN [st EXCEPT !.done = TRUE, !.ptr = obj,
                         !.fl.mem[st.prev].next_free = st.fl.mem[obj].next_free]
         ELSE [st EXCEPT !.prev = obj]

\* pop_filter: up to rounds rounds of the loop, one after the other
RECURSIVE pop_filter_rounds(_, _, _)
pop_filter_rounds(st, align, rounds) ==
    IF st.done THEN st
    ELSE IF rounds <= 1 THEN pop_filter_round(st, align)
    ELSE pop_filter_rounds(pop_filter_rounds(st, align, rounds \div 2),
                           align, rounds - rounds \div 2)

\* pop_filter: the loop; it ends within as many rounds as there are objects
pop_filter_loop(fl, align) ==
    LET st == pop_filter_rounds(
                  [fl |-> fl, prev |-> fl.head, done |-> FALSE,
                   ptr |-> NullPtr],
                  align, Cardinality(DOMAIN fl.mem) + 1)
    IN Popped(st.ptr, st.fl)

\* pop_filter that gives the head of the list whatever its address
pop_filter_head(fl, align) ==
    free_list_pop_front(fl)

\* FreeList::pop_filter
pop_filter(fl, align) ==
    IF fl.head = NullPtr THEN Popped(NullPtr, fl)
    ELSE IF is_aligned_fn(fl.head, align) THEN free_list_pop_front(fl)
    ELSE pop_filter_loop(fl, align)

\* PageHeader::new_at: the loop pushes the objects from the last one of
\* the page down to objs_start, so each object links to the next higher one
\* and the lowest is the head
page_new_at(fl, i) ==
    LET objs == PageObjects(i)
        last == page_head(i) + BYTES_PER_FRAME - BLOCK_SZ[i]
    IN FreeList(
           IF objs = {} THEN fl.head ELSE objs_start(i),
           [a \in DOMAIN fl.mem |->
               IF a \in objs
               THEN ObjectHeader(IF a = last THEN fl.head
                                 ELSE a + BLOCK_SZ[i])
               ELSE fl.mem[a]])

\* alloc / dealloc: the index of the first block size larger than size, 0
\* when there is none
block_index(size) ==
    IF \A i \in 1..N_BLOCK_SIZES : ~(BLOCK_SZ[i] > size) THEN 0
    ELSE CHOOSE i \in 1..N_BLOCK_SIZES :
             /\ BLOCK_SZ[i] > size
             /\ \A j \in 1..(i - 1) : ~(BLOCK_SZ[j] > size)

\* the index of the first block size not smaller than size
block_index_inclusive(size) ==
    IF \A i \in 1..N_BLOCK_SIZES : ~(BLOCK_SZ[i] >= size) THEN 0
    ELSE CHOOSE i \in 1..N_BLOCK_SIZES :
             /\ BLOCK_SZ[i] >= size
             /\ \A j \in 1..(i - 1) : ~(BLOCK_SZ[j] >= size)

\* the slab allocator as one record
Slab ==
    [heads |-> slabHead, mem |-> slabMem]

\* ObjectAllocator::alloc
alloc(sl, layout) ==
    LET index == block_index(layout[1]) IN
    IF index = 0 THEN [ptr |-> NullPtr, sl |-> sl]
    ELSE LET r == pop_filter(FreeList(sl.heads[index], sl.mem), layout[2])
         IN [ptr |-> r.ptr,
             sl |-> [heads |-> [sl.heads EXCEPT ![index] = r.fl.head],
                     mem |-> r.fl.mem]]

\* dealloc that takes the first block size that holds size bytes
dealloc_index_inclusive(layout) ==
    block_index_inclusive(layout[1])

\* the class dealloc takes for a layout
dealloc_index(layout) ==
    block_index(layout[1])

\* ObjectAllocator::dealloc
dealloc(sl, ptr, layout) ==
    LET index == dealloc_index(layout)
        fl == free_list_push_front(FreeList(sl.heads[index], sl.mem), ptr)
    IN [heads |-> [sl.heads EXCEPT ![index] = fl.head], mem |-> fl.mem]

\* ObjectAllocator::new: every page with all its objects on its list
RECURSIVE object_allocator_new(_, _)
object_allocator_new(sl, i) ==
    IF i > N_BLOCK_SIZES THEN sl
    ELSE LET fl == page_new_at(FreeList(NullPtr, sl.mem), i)
         IN object_allocator_new(
                [heads |-> [sl.heads EXCEPT ![i] = fl.head], mem |-> fl.mem],
                i + 1)

SlabNew ==
    object_allocator_new(
        [heads |-> [i \in 1..N_BLOCK_SIZES |-> NullPtr],
         mem |-> [a \in ObjectAddrs |-> ObjectHeader(NullPtr)]], 1)

\* the objects on the free list: one more link followed
free_objects_round(st, mem) ==
    IF st.at = NullPtr THEN st
    ELSE [at |-> mem[st.at].next_free, out |-> Append(st.out, st.at)]

RECURSIVE free_objects_rounds(_, _, _)
free_objects_rounds(st, mem, rounds) ==
    IF st.at = NullPtr THEN st
    ELSE IF rounds <= 1 THEN free_objects_round(st, mem)
    ELSE free_objects_rounds(free_objects_rounds(st, mem, rounds \div 2),
                             mem, rounds - rounds \div 2)

\* the objects on the free list from head on, in order; fuel bounds the walk
FreeObjects(head, mem, fuel) ==
    free_objects_rounds([at |-> head, out |-> <<>>], mem, fuel).out

\* the free lists of all classes
FreeLists(sl) ==
    [i \in 1..N_BLOCK_SIZES |->
        FreeObjects(sl.heads[i], sl.mem, Cardinality(PageObjects(i)) + 1)]

\* run_allocator_tests: aligns and sizes
TestValues ==
    <<1, 2, 4, 8, 16, 32, 64, 128>>

\* where the callers of the allocator are: run_allocator_tests at aligns[a],
\* sizes[s], allocating or checking, or the kernel after it with the number
\* of calls it made
Caller(ph, a, s, calls, halted) ==
    [phase |-> ph, a |-> a, s |-> s, calls |-> calls, halted |-> halted]

\* the layout of the objects of the round of run_allocator_tests
TestLayout ==
    <<TestValues[slabCaller.s], TestValues[slabCaller.a]>>

\* what the last call did: the free lists before and after it
SlabCall(op, layout, ptr, before, after) ==
    [op |-> op, layout |-> layout, ptr |-> ptr,
     index |-> block_index(layout[1]), before |-> before, after |-> after,
     live |-> Len(slabLive), test |-> slabCaller.phase # "run"]

\* GLOBAL_ALLOCATOR right after init, before run_allocator_tests or with the
\* objects as ObjectAllocator::new left them
SlabStart ==
    /\ slabHead = SlabNew.heads
    /\ slabMem = SlabNew.mem
    /\ slabLive = <<>>
    /\ slabCaller \in {Caller("alloc", 1, 1, 0, FALSE),
                       Caller("run", 1, 1, 0, FALSE)}
    /\ slabRes = [op |-> "none"]

\* GLOBAL_ALLOCATOR right after init
SlabIdle ==
    /\ slabHead = SlabNew.heads
    /\ slabMem = SlabNew.mem
    /\ slabLive = <<>>
    /\ slabCaller = Caller("alloc", 1, 1, 0, FALSE)
    /\ slabRes = [op |-> "none"]

\* alloc by a caller who then writes data into the object; a write through
\* a null pointer stops the kernel
CallAlloc(layout, data, caller) ==
    \E r \in {alloc(Slab, layout)} :
        /\ slabHead' = r.sl.heads
        /\ slabMem' = IF r.ptr = NullPtr THEN r.sl.mem
                      ELSE [r.sl.mem EXCEPT ![r.ptr] = CallerData(data)]
        /\ slabLive' = IF r.ptr = NullPtr THEN slabLive
                       ELSE Append(slabLive, [ptr |-> r.ptr, layout |-> layout,
                                              data |-> data])
        /\ slabRes' = SlabCall("alloc", layout, r.ptr, FreeLists(Slab),
                               FreeLists(r.sl))
        /\ slabCaller' = IF r.ptr = NullPtr /\ caller.phase # "run"
                         THEN [caller EXCEPT !.halted = TRUE]
                         ELSE caller

\* dealloc of the k-th live object
CallDealloc(k, caller) ==
    /\ \E sl \in {dealloc(Slab, slabLive[k].ptr, slabLive[k].layout)} :
       /\ slabHead' = sl.heads
       /\ slabMem' = sl.mem
       /\ slabRes' = SlabCall("dealloc", slabLive[k].layout, slabLive[k].ptr,
                              FreeLists(Slab), FreeLists(sl))
    /\ slabLive' = [j \in 1..(Len(slabLive) - 1) |->
                       IF j < k THEN slabLive[j] ELSE slabLive[j + 1]]
    /\ slabCaller' = caller

\* run_allocator_tests: one round of the loop that allocates and fills the
\* objects
TestAlloc ==
    /\ slabCaller.phase = "alloc"
    /\ ~slabCaller.halted
    /\ CallAlloc(TestLayout, Len(slabLive),
                 IF Len(slabLive) + 1 = TEST_OBJECTS
                 THEN [slabCaller EXCEPT !.phase = "check"]
                 ELSE slabCaller)

\* run_allocator_tests: one round of the loop that checks the data of the
\* objects and gives them back, then the next size and align
TestCheck ==
    /\ slabCaller.phase = "check"
    /\ ~slabCaller.halted
    /\ IF slabMem[slabLive[1].ptr] # CallerData(slabLive[1].data)
       THEN /\ slabCaller' = [slabCaller EXCEPT !.halted = TRUE]
            /\ UNCHANGED <<slabHead, slabMem, slabLive, slabRes>>
       ELSE CallDealloc(1,
                IF Len(slabLive) > 1 THEN slabCaller
                ELSE IF slabCaller.s < Len(TestValues)
                THEN [slabCaller EXCEPT !.phase = "alloc", !.s = @ + 1]
                ELSE IF slabCaller.a < Len(TestValues)
                THEN [slabCaller EXCEPT !.phase = "alloc", !.s = 1,
                                        !.a = @ + 1]
                ELSE [slabCaller EXCEPT !.phase = "run"])

\* the kernel allocates an object of layout and writes into it
SlabAlloc(layout) ==
    /\ slabCaller.phase = "run"
    /\ slabCaller.calls < MaxSlabCalls
    /\ Len(slabLive) < MaxLive
    /\ CallAlloc(layout, Len(slabLive) + TEST_OBJECTS,
                 [slabCaller EXCEPT !.calls = @ + 1])

\* the kernel gives back its k-th live object
SlabDealloc(k) ==
    /\ slabCaller.phase = "run"
    /\ slabCaller.calls < MaxSlabCalls
    /\ k \in 1..Len(slabLive)
    /\ CallDealloc(k, [slabCaller EXCEPT !.calls = @ + 1])

SlabNext ==
    \/ TestAlloc
    \/ TestCheck
    \/ \E layout \in Layouts : SlabAlloc(layout)
    \/ \E k \in 1..MaxLive : SlabDealloc(k)

(***************************************************************************)
(* main.rs: the event loop of KernelMain2, the interrupt handlers that     *)
(* feed it, and task B                                                     *)
(***************************************************************************)

\* bursts of LAPIC interrupts per behaviour
MaxBursts == 2

\* messages the interrupt handlers and the tick try to push per behaviour
MaxLoopPush == 3

\* rounds of task B's loop that are followed
MaxTaskB == 2

\* LAPIC interrupts that arrive in a row before the loop looks again
LapicBursts == {1, TASK_TIMER_PERIOD + 1, 201, 601}

\* Option<Message>::None
NoMessage == [some |-> FALSE, msg |-> XhciMsg]

\* what an iteration of the loop did
Iteration(kind, ticked, fired, msg, switched) ==
    [kind |-> kind, ticked |-> ticked, fired |-> fired, msg |-> msg,
     switched |-> switched]

\* what the last push did to the queue
QueueCall(ok, before, after) ==
    [op |-> "push", ok |-> ok, before |-> before, after |-> after]

\* the messages the tick pushed with success, from its log
TickPushed(log) ==
    [i \in 1..Len(SelectSeq(log, LAMBDA e : e.ok)) |->
        TimerTimeoutMsg(SelectSeq(log, LAMBDA e : e.ok)[i].id,
                        SelectSeq(log, LAMBDA e : e.ok)[i].id)]

\* KernelMain2 up to the loop: initialize_timer, EVENTS empty,
\* add_timer(get_current_tick() + 200, 1), add_timer(.. + 600, 2)
LoopStart ==
    /\ lpElapsed = 0
    /\ lpTimer = [tick   |-> 0,
                  timers |-> heap_push(heap_push(heap_push(<<>>,
                                 [timeout |-> 0 + TASK_TIMER_PERIOD,
                                  value   |-> TASK_TIMER_VALUE, id |-> 0]),
                                 [timeout |-> 0 + 200, value |-> 1, id |-> 1]),
                                 [timeout |-> 0 + 600, value |-> 2, id |-> 2])]
    /\ lpEvents = MessageQueue_new
    /\ lpPc = "loop"
    /\ lpMsg = NoMessage
    /\ lpIter = Iteration("none", FALSE, FALSE, FALSE, FALSE)
    /\ lpPushed = <<>>
    /\ lpDispatched = <<>>
    /\ lpCnt = 0
    /\ lpRes = [op |-> "none", ok |-> FALSE, before |-> MessageQueue_new,
                after |-> MessageQueue_new]
    /\ lpBursts = 0
    /\ lpLapic = 0

\* where the loop is after an interrupt handler returned: an interrupt
\* ends hlt
after_interrupt(pc) ==
    IF pc = "halted" THEN "loop" ELSE pc

\* lapic_interrupt_handler, n times: TIMER_ELAPSED.fetch_add(1)
LapicInterrupt(n) ==
    /\ lpBursts < MaxBursts
    /\ lpBursts' = lpBursts + 1
    /\ lpElapsed' = lpElapsed + n
    /\ lpLapic' = lpLapic + n
    /\ lpPc' = after_interrupt(lpPc)
    /\ UNCHANGED <<lpTimer, lpEvents, lpMsg, lpIter, lpPushed,
                   lpDispatched, lpCnt, lpRes>>

\* xhci_interrupt_handler: let _ = lock.push(Message::Xhci)
LoopXhciInterrupt ==
    /\ Len(lpPushed) < MaxLoopPush
    /\ \E r \in {mq_push(lpEvents, XhciMsg)} :
          /\ lpEvents' = r.q
          /\ lpPushed' = IF r.ok THEN Append(lpPushed, XhciMsg) ELSE lpPushed
          /\ lpRes' = QueueCall(r.ok, lpEvents, r.q)
    /\ lpPc' = after_interrupt(lpPc)
    /\ UNCHANGED <<lpElapsed, lpTimer, lpMsg, lpIter, lpDispatched,
                   lpCnt, lpBursts, lpLapic>>

\* the loop, interrupts off, finds no message and no elapsed tick and
\* calls set_interrupt_flag(true); hlt comes next
LoopHlt ==
    /\ lpPc = "loop"
    /\ lpEvents.cnt = 0 /\ lpElapsed = 0
    /\ lpIter' = Iteration("hlt", FALSE, FALSE, FALSE, FALSE)
    /\ lpPc' = "idle"
    /\ UNCHANGED <<lpElapsed, lpTimer, lpEvents, lpMsg, lpPushed,
                   lpDispatched, lpCnt, lpRes, lpBursts, lpLapic>>

\* asm!("hlt"): the processor stops until an interrupt; then continue
LoopHalt ==
    /\ lpPc = "idle"
    /\ lpPc' = "halted"
    /\ UNCHANGED <<lpElapsed, lpTimer, lpEvents, lpMsg, lpIter, lpPushed,
                   lpDispatched, lpCnt, lpRes, lpBursts, lpLapic>>

\* the loop with interrupts off: swap TIMER_ELAPSED, on_lapic_interrupt if
\* it was not 0 (the value it returns is dropped), EVENTS.lock().pop()
LoopHead ==
    /\ lpPc = "loop"
    /\ ~(lpEvents.cnt = 0 /\ lpElapsed = 0)
    /\ lpElapsed' = 0
    /\ \E out \in IF lpElapsed > 0
                  THEN tick_loop([tick               |->
                                      inc_tick_volatile(lpTimer.tick, lpElapsed),
                                  timers             |-> lpTimer.timers,
                                  events             |-> lpEvents,
                                  tlog               |-> <<>>,
                                  task_timer_timeout |-> FALSE])
                  ELSE {[tick               |-> lpTimer.tick,
                         timers             |-> lpTimer.timers,
                         events             |-> lpEvents,
                         tlog               |-> <<>>,
                         task_timer_timeout |-> FALSE]} :
          /\ lpTimer' = [tick |-> out.tick, timers |-> out.timers]
          /\ lpPushed' = lpPushed \o TickPushed(out.tlog)
          /\ lpEvents' = mq_pop(out.events).q
          /\ lpMsg' = [some |-> mq_pop(out.events).some,
                       msg  |-> mq_pop(out.events).msg]
          /\ lpIter' = Iteration("head", lpElapsed > 0,
                                 out.task_timer_timeout,
                                 mq_pop(out.events).some, FALSE)
    /\ lpPc' = "dispatch"
    /\ UNCHANGED <<lpDispatched, lpCnt, lpRes, lpBursts, lpLapic>>

\* the timers after the match on the popped message: the demo timers 1 and 2
\* arm themselves again
dispatch_timers(tm, m) ==
    IF m.some /\ m.msg.kind = "TimerTimeout" /\ m.msg.val = 1
    THEN heap_push(tm.timers, [timeout |-> tm.tick + 200, value |-> 1, id |-> 1])
    ELSE IF m.some /\ m.msg.kind = "TimerTimeout" /\ m.msg.val = 2
    THEN heap_push(tm.timers, [timeout |-> tm.tick + 600, value |-> 2, id |-> 2])
    ELSE tm.timers

\* whether the loop goes on to switch_context(&TASK_B_CTX, &mut TASK_A_CTX)
switches(it) ==
    TRUE

\* the loop with interrupts on again: the match on the message, then
\* switch_context
LoopDispatch ==
    /\ lpPc = "dispatch"
    /\ lpTimer' = [lpTimer EXCEPT !.timers = dispatch_timers(lpTimer, lpMsg)]
    /\ lpDispatched' = IF lpMsg.some THEN Append(lpDispatched, lpMsg.msg)
                       ELSE lpDispatched
    /\ lpMsg' = NoMessage
    /\ lpIter' = [lpIter EXCEPT !.kind = "done", !.switched = switches(lpIter)]
    /\ lpPc' = IF switches(lpIter) THEN "taskB" ELSE "loop"
    /\ UNCHANGED <<lpElapsed, lpEvents, lpPushed, lpCnt, lpRes, lpBursts, lpLapic>>

\* taskB: one round of its loop, which never switches back
TaskB ==
    /\ lpPc = "taskB"
    /\ lpCnt < MaxTaskB
    /\ lpCnt' = lpCnt + 1
    /\ UNCHANGED <<lpElapsed, lpTimer, lpEvents, lpPc, lpMsg, lpIter,
                   lpPushed, lpDispatched, lpRes, lpBursts, lpLapic>>

\* the steps of the kernel itself, as opposed to the interrupts
LoopStep ==
    \/ LoopHlt
    \/ LoopHalt
    \/ LoopHead
    \/ LoopDispatch
    \/ TaskB

LoopNext ==
    \/ \E n \in LapicBursts : LapicInterrupt(n)
    \/ LoopXhciInterrupt
    \/ LoopHlt
    \/ LoopHalt
    \/ LoopHead
    \/ LoopDispatch
    \/ TaskB

(***************************************************************************)
(* usb/usbd.rs: UsbDriver::main_loop, the task that configures every       *)
(* device the addressing task announces, and the reading of a              *)
(* configuration descriptor                                                *)
(***************************************************************************)

\* devices announced on the address-device channel per behaviour
MaxDevices == 2

\* buf_sz of the first GET_DESCRIPTOR(CONFIGURATION): read_config(.., 64)
ProbeSize == 64

\* n bytes 0
Zeros(n) ==
    [i \in 1..n |-> 0]

\* a descriptor of length bLength and type bDescriptorType, its other
\* bytes 0
DescriptorBytes(length, type) ==
    <<length, type>> \o Zeros(length - 2)

RECURSIVE Flatten(_)
\* the sequences of seqs, one after the other
Flatten(seqs) ==
    IF seqs = <<>> THEN <<>> ELSE Head(seqs) \o Flatten(Tail(seqs))

\* what a device answers to GET_DESCRIPTOR(CONFIGURATION): the descriptors
\* descs, each <<bLength, bDescriptorType>>, followed by pad bytes 0, with
\* wTotalLength in bytes [2..4] of the first
ConfigurationImage(descs, pad) ==
    LET raw == Flatten([i \in 1..Len(descs) |->
                           DescriptorBytes(descs[i][1], descs[i][2])])
               \o Zeros(pad)
    IN [raw EXCEPT ![3] = Len(raw) % 256, ![4] = Len(raw) \div 256]

\* a mouse (34 bytes), a device whose configuration fills the probe
\* exactly (64), one with a longer configuration (73), and one whose
\* configuration ends in bytes 0 (25)
DeviceConfigurations ==
    {ConfigurationImage(<<<<9, 2>>, <<9, 4>>, <<9, 33>>, <<7, 5>>>>, 0),
     ConfigurationImage(<<<<9, 2>>, <<9, 4>>, <<9, 33>>, <<7, 5>>,
                          <<9, 4>>, <<7, 5>>, <<7, 5>>, <<7, 5>>>>, 0),
     ConfigurationImage(<<<<9, 2>>, <<9, 4>>, <<9, 33>>, <<7, 5>>,
                          <<9, 4>>, <<7, 5>>, <<7, 5>>, <<7, 5>>,
                          <<9, 4>>>>, 0),
     ConfigurationImage(<<<<9, 2>>, <<9, 4>>>>, 7)}

\* what a byte outside the buffer can hold when it is read
OutsideBytes == {0, 9}

\* u16::from_le_bytes
from_le_bytes(lo, hi) ==
    lo + 256 * hi

\* the buffer vec![0u8; buf_sz] after the device wrote its answer into it
device_answer(dev, buf_sz) ==
    [i \in 1..buf_sz |-> IF i <= Len(dev) THEN dev[i] ELSE 0]

\* *ptr for the byte at offset off from the start of buf
byte_at(buf, off, outside) ==
    IF off < Len(buf) THEN buf[off + 1] ELSE outside

\* the bytes read_descriptor copies for a descriptor of this type
copied_size(type, length) ==
    IF type \in {2, 4, 33} THEN 9
    ELSE IF type = 5 THEN 7
    ELSE length

\* read_descriptor(ptr), ptr at offset off of buf
read_descriptor(buf, off, outside) ==
    LET length == byte_at(buf, off, outside)
        type   == byte_at(buf, off + 1, outside)
    IN IF length = 0
       THEN [some |-> FALSE, next |-> off, reads |-> {off}]
       ELSE [some  |-> TRUE,
             next  |-> off + length,
             reads |-> {off, off + 1}
                           \cup off..(off + copied_size(type, length) - 1)]

RECURSIVE read_config_walk(_, _, _, _, _)
\* the while loop of read_config: ptr at offset off, buf_end at offset
\* buf_end
read_config_walk(buf, off, buf_end, outside, acc) ==
    IF ~(off < buf_end)
    THEN acc
    ELSE LET r == read_descriptor(buf, off, outside) IN
         IF ~r.some
         THEN [acc EXCEPT !.reads = acc.reads \cup r.reads, !.zero = TRUE]
         ELSE read_config_walk(buf, r.next, buf_end, outside,
                               [acc EXCEPT !.reads = acc.reads \cup r.reads,
                                           !.descs = acc.descs + 1])

\* get_config_descriptor: Ok(Ok(buf)) or Ok(Err(total_len))
get_config_descriptor(dev, buf_sz) ==
    LET buf       == device_answer(dev, buf_sz)
        total_len == from_le_bytes(buf[3], buf[4])
    IN IF total_len < buf_sz
       THEN [ok |-> FALSE, total |-> total_len, buf |-> <<>>]
       ELSE [ok |-> TRUE, total |-> total_len, buf |-> buf]

\* read_config(slot_id, i_conf, buf_sz) on a device that answers with dev
read_config(dev, buf_sz, outside) ==
    LET first     == get_config_descriptor(dev, buf_sz)
        buf       == IF first.ok THEN first.buf
                     ELSE device_answer(dev, first.total)
        total_len == from_le_bytes(buf[3], buf[4])
        walk      == read_config_walk(buf, 0, total_len, outside,
                                      [reads |-> {}, descs |-> 0,
                                       zero |-> FALSE])
    IN [op       |-> "read_config",
        requests |-> IF first.ok THEN <<buf_sz>>
                     ELSE <<buf_sz, first.total>>,
        total    |-> Len(dev),
        buf_len  |-> Len(buf),
        received |-> IF Len(buf) < Len(dev) THEN Len(buf) ELSE Len(dev),
        reads    |-> walk.reads,
        descs    |-> walk.descs,
        zero     |-> walk.zero]

\* what the last awaited call of main_loop returned
UsbdCall(step, code) ==
    [step |-> step, code |-> code, result |-> transfer_result(code)]

\* UsbDriver::new and the task spawned for main_loop, before its first poll
UsbdStart ==
    /\ usbdChan = <<>>
    /\ usbdSent = 0
    /\ usbdPc = "receive"
    /\ usbdSlot = 0
    /\ usbdConfigured = {}
    /\ usbdRet = "none"
    /\ usbdCall = [step |-> "none", code |-> "Success", result |-> "Ok"]
    /\ usbdRes = [op |-> "none"]

\* the addressing task sends the slot id of a device it addressed
AddressDevice ==
    /\ usbdSent < MaxDevices
    /\ usbdSent' = usbdSent + 1
    /\ usbdChan' = push_back(usbdChan, usbdSent + 1)
    /\ UNCHANGED <<usbdPc, usbdSlot, usbdConfigured, usbdRet, usbdCall,
                   usbdRes>>

\* main_loop: address_device_notifier.receive_async().await
UsbdReceive ==
    /\ usbdPc = "receive"
    /\ usbdChan # <<>>
    /\ usbdSlot' = Head(usbdChan)
    /\ usbdChan' = Tail(usbdChan)
    /\ usbdPc' = "device_desc"
    /\ UNCHANGED <<usbdSent, usbdConfigured, usbdRet, usbdCall, usbdRes>>

\* an awaited call of main_loop followed by `?`: on Err main_loop returns
\* the error, and the executor drops the task
Await(step, code, next) ==
    /\ usbdCall' = UsbdCall(step, code)
    /\ IF transfer_result(code) = "Ok"
       THEN usbdPc' = next /\ usbdRet' = usbdRet
       ELSE usbdPc' = "returned" /\ usbdRet' = "TransferError"

\* main_loop: read_device_descriptor(slot_id).await?, the transfer
\* completing with code
UsbdDeviceDescriptor(code) ==
    /\ usbdPc = "device_desc"
    /\ Await("read_device_descriptor", code, "config")
    /\ UNCHANGED <<usbdChan, usbdSent, usbdSlot, usbdConfigured, usbdRes>>

\* main_loop: read_config(slot_id, i_conf, 64).await? for the one
\* configuration of a device that answers with dev
UsbdReadConfig(dev, outside, code) ==
    /\ usbdPc = "config"
    /\ Await("read_config", code, "configure")
    /\ usbdRes' = IF transfer_result(code) = "Ok"
                  THEN read_config(dev, ProbeSize, outside)
                  ELSE [op |-> "none"]
    /\ UNCHANGED <<usbdChan, usbdSent, usbdSlot, usbdConfigured>>

\* main_loop: set_configuration(0).await?, enable_endpoints().await? and
\* the initialize().await? of the class driver, then the next round
UsbdConfigure(code) ==
    /\ usbdPc = "configure"
    /\ Await("set_configuration", code, "receive")
    /\ usbdConfigured' = IF transfer_result(code) = "Ok"
                         THEN usbdConfigured \cup {usbdSlot}
                         ELSE usbdConfigured
    /\ UNCHANGED <<usbdChan, usbdSent, usbdSlot, usbdRes>>

UsbdNext ==
    \/ AddressDevice
    \/ UsbdReceive
    \/ \E code \in TransferCodes : UsbdDeviceDescriptor(code)
    \/ \E dev \in DeviceConfigurations, outside \in OutsideBytes,
          code \in TransferCodes : UsbdReadConfig(dev, outside, code)
    \/ \E code \in TransferCodes : UsbdConfigure(code)

(***************************************************************************)
(* usb/ring.rs: EventRing, the consumer of the event ring, against a       *)
(* controller that writes event TRBs into the ring                         *)
(***************************************************************************)

\* events the controller writes per behaviour: enough to wrap twice
MaxEvents == 66

\* EventRing::new(size)
EventRing_new ==
    [data        |-> [i \in 0..(RingSize - 1) |-> DefaultTRB],
     cycle_state |-> TRUE,
     deque       |-> 0]

\* EventRing::pop that takes the TRB at deque whatever its cycle bit
event_ring_pop_any(r) ==
    [some |-> TRUE,
     trb  |-> r.data[r.deque],
     r    |-> [r EXCEPT !.deque = IF r.deque + 1 = RingSize
                                  THEN 0 ELSE r.deque + 1,
                        !.cycle_state = IF r.deque + 1 = RingSize
                                        THEN ~r.cycle_state
                                        ELSE r.cycle_state]]

\* EventRing::pop that keeps its cycle state at the wrap
event_ring_pop_notoggle(r) ==
    IF r.data[r.deque].cycle # r.cycle_state
    THEN [some |-> FALSE, trb |-> r.data[r.deque], r |-> r]
    ELSE [some |-> TRUE,
          trb  |-> r.data[r.deque],
          r    |-> [r EXCEPT !.deque = IF r.deque + 1 = RingSize
                                       THEN 0 ELSE r.deque + 1]]

\* EventRing::pop
event_ring_pop(r) ==
    IF r.data[r.deque].cycle # r.cycle_state
    THEN [some |-> FALSE, trb |-> r.data[r.deque], r |-> r]
    ELSE [some |-> TRUE,
          trb  |-> r.data[r.deque],
          r    |-> [r EXCEPT !.deque = IF r.deque + 1 = RingSize
                                       THEN 0 ELSE r.deque + 1,
                             !.cycle_state = IF r.deque + 1 = RingSize
                                             THEN ~r.cycle_state
                                             ELSE r.cycle_state]]

\* the controller's side of the event ring: its enqueue index, its
\* producer cycle state and the dequeue pointer the driver published
Producer(enque, cycle, erdp) ==
    [enque |-> enque, cycle |-> cycle, erdp |-> erdp]

\* what a pop did
PopCall(res, before, written, popped) ==
    [op |-> "pop", some |-> res.some, trb |-> res.trb, before |-> before,
     after |-> res.r, written |-> written, popped |-> popped]

\* initialize_xhci: EventRing::new(32), ERDP at the start of the segment
ErStart ==
    /\ erRing = EventRing_new
    /\ erHw = Producer(0, TRUE, 0)
    /\ erWritten = 0
    /\ erPopped = <<>>
    /\ erRes = [op |-> "none"]

\* the controller writes its next event TRB with its producer cycle bit,
\* unless the ring is full up to the published dequeue pointer
HwWriteEvent ==
    /\ erWritten < MaxEvents
    /\ (erHw.enque + 1) % RingSize # erHw.erdp
    /\ erRing' = [erRing EXCEPT !.data[erHw.enque] =
                     [cycle |-> erHw.cycle, seq |-> erWritten]]
    /\ erHw' = [erHw EXCEPT !.enque = (erHw.enque + 1) % RingSize,
                            !.cycle = IF erHw.enque + 1 = RingSize
                                      THEN ~erHw.cycle ELSE erHw.cycle]
    /\ erWritten' = erWritten + 1
    /\ UNCHANGED <<erPopped, erRes>>

\* process_events: one round of `while let Some(trb) = event_ring.pop()`;
\* when pop returns None the loop ends and ERDP is written
ProcessEventsPop ==
    \E res \in {event_ring_pop(erRing)} :
        /\ erRing' = res.r
        /\ erPopped' = IF res.some THEN Append(erPopped, res.trb.seq)
                       ELSE erPopped
        /\ erHw' = IF res.some THEN erHw
                   ELSE [erHw EXCEPT !.erdp = res.r.deque]
        /\ erRes' = PopCall(res, erRing, erWritten, Len(erPopped))
        /\ UNCHANGED erWritten

ErNext ==
    \/ HwWriteEvent
    \/ ProcessEventsPop

(***************************************************************************)
(* memory_manager.rs SingleMutex under main.rs and timer.rs: who holds the *)
(* EVENTS lock and the TIMER lock, instruction by instruction, with the    *)
(* interrupt flag and the two interrupt handlers                           *)
(***************************************************************************)

\* LAPIC timer interrupts counted in TIMER_ELAPSED before the loop takes them
MaxLkElapsed == 2

\* timers that one call of tick finds overdue
MaxLkFired == 2

\* capacity of the message queue in this part
LkQueueCap == 2

\* set_interrupt_flag that always enables
set_interrupt_flag_on(flag) ==
    TRUE

\* interrupt::set_interrupt_flag: the interrupt flag after sti or cli
set_interrupt_flag(flag) ==
    flag

\* SingleMutex::lock on a mutex whose locked field is locked: the field
\* afterwards and whether the assert held
SingleMutex_lock(locked) ==
    [locked |-> TRUE, ok |-> ~locked]

\* SingleMutex::unlock
SingleMutex_unlock(locked) ==
    FALSE

\* MessageQueue::push on the queue of message kinds (Err on a full queue)
lk_push(q, kind) ==
    IF Len(q) = LkQueueCap THEN q ELSE Append(q, kind)

LkStart ==
    /\ lkPc = "loop"
    /\ lkIf = TRUE
    /\ lkInt = "none"
    /\ lkEvents = FALSE
    /\ lkTimer = FALSE
    /\ lkQueue = <<>>
    /\ lkElapsed = 0
    /\ lkPush = 0
    /\ lkMsg = "none"
    /\ lkCalls = <<>>
    /\ lkSaved = FALSE
    /\ lkPanic = FALSE

\* the interrupted code runs: no handler is active and no assert has failed
LkRuns(pc) ==
    /\ lkPc = pc
    /\ lkInt = "none"
    /\ ~lkPanic

\* main.rs 301: set_interrupt_flag(false)
LkCli ==
    /\ LkRuns("loop")
    /\ lkIf' = set_interrupt_flag(FALSE)
    /\ lkPc' = "check_lock"
    /\ UNCHANGED <<lkInt, lkEvents, lkTimer, lkQueue, lkElapsed, lkPush,
                   lkMsg, lkCalls, lkSaved, lkPanic>>

\* EVENTS.lock() at main.rs 302, 316 and timer.rs 72
LkLockEvents ==
    /\ \E pc \in {"check_lock", "pop_lock", "tick_push_lock"} :
          /\ LkRuns(pc)
          /\ lkPc' = CASE pc = "check_lock" -> "check"
                       [] pc = "pop_lock" -> "pop"
                       [] OTHER -> "tick_push"
    /\ \E l \in {SingleMutex_lock(lkEvents)} :
          /\ lkEvents' = l.locked
          /\ lkPanic' = ~l.ok
    /\ UNCHANGED <<lkIf, lkInt, lkTimer, lkQueue, lkElapsed, lkPush, lkMsg,
                   lkCalls, lkSaved>>

\* main.rs 302-303: the condition is evaluated under the guard, the guard is
\* dropped, and the idle arm enables interrupts
LkCheck ==
    /\ LkRuns("check")
    /\ lkEvents' = SingleMutex_unlock(lkEvents)
    /\ lkPc' = IF Len(lkQueue) = 0 /\ lkElapsed = 0 THEN "idle" ELSE "swap"
    /\ UNCHANGED <<lkIf, lkInt, lkTimer, lkQueue, lkElapsed, lkPush, lkMsg,
                   lkCalls, lkSaved, lkPanic>>

\* main.rs 303: set_interrupt_flag(true) in the idle arm
LkIdleSti ==
    /\ LkRuns("idle")
    /\ lkIf' = set_interrupt_flag(TRUE)
    /\ lkPc' = "hlt"
    /\ UNCHANGED <<lkInt, lkEvents, lkTimer, lkQueue, lkElapsed, lkPush,
                   lkMsg, lkCalls, lkSaved, lkPanic>>

\* main.rs 304: hlt
LkHlt ==
    /\ LkRuns("hlt")
    /\ lkPc' = "halted"
    /\ UNCHANGED <<lkIf, lkInt, lkEvents, lkTimer, lkQueue, lkElapsed, lkPush,
                   lkMsg, lkCalls, lkSaved, lkPanic>>

\* main.rs 308-311: TIMER_ELAPSED.swap(0); with elapsed > 0 the call of
\* on_lapic_interrupt follows, which finds k timers overdue
LkSwap ==
    /\ LkRuns("swap")
    /\ lkElapsed' = 0
    /\ IF lkElapsed > 0
       THEN /\ lkPc' = "tick_lock"
            /\ \E k \in 0..MaxLkFired : lkPush' = k
       ELSE /\ lkPc' = "pop_lock"
            /\ lkPush' = 0
    /\ UNCHANGED <<lkIf, lkInt, lkEvents, lkTimer, lkQueue, lkMsg, lkCalls,
                   lkSaved, lkPanic>>

\* TIMER.lock() at timer.rs 134, 139 and 145
LkLockTimer ==
    /\ \E pc \in {"tick_lock", "wi_lock"} :
          /\ LkRuns(pc)
          /\ lkPc' = IF pc = "tick_lock" THEN "tick" ELSE "wi_body"
    /\ \E l \in {SingleMutex_lock(lkTimer)} :
          /\ lkTimer' = l.locked
          /\ lkPanic' = ~l.ok
    /\ UNCHANGED <<lkIf, lkInt, lkEvents, lkQueue, lkElapsed, lkPush, lkMsg,
                   lkCalls, lkSaved>>

\* timer.rs 64-76: the head of the while loop of tick; at its end the guard
\* of on_lapic_interrupt is dropped
LkTick ==
    /\ LkRuns("tick")
    /\ IF lkPush > 0
       THEN /\ lkPc' = "tick_push_lock"
            /\ UNCHANGED lkTimer
       ELSE /\ lkPc' = "pop_lock"
            /\ lkTimer' = SingleMutex_unlock(lkTimer)
    /\ UNCHANGED <<lkIf, lkInt, lkEvents, lkQueue, lkElapsed, lkPush, lkMsg,
                   lkCalls, lkSaved, lkPanic>>

\* timer.rs 72: push(TimerTimeout) under the EVENTS guard, which is dropped
\* at the end of the statement
LkTickPush ==
    /\ LkRuns("tick_push")
    /\ lkQueue' = lk_push(lkQueue, "timer")
    /\ lkEvents' = SingleMutex_unlock(lkEvents)
    /\ lkPush' = lkPush - 1
    /\ lkPc' = "tick"
    /\ UNCHANGED <<lkIf, lkInt, lkTimer, lkElapsed, lkMsg, lkCalls, lkSaved,
                   lkPanic>>

\* main.rs 316: pop under the EVENTS guard, dropped at the end of the let
LkPop ==
    /\ LkRuns("pop")
    /\ lkMsg' = IF Len(lkQueue) = 0 THEN "none" ELSE Head(lkQueue)
    /\ lkQueue' = IF Len(lkQueue) = 0 THEN lkQueue ELSE Tail(lkQueue)
    /\ lkEvents' = SingleMutex_unlock(lkEvents)
    /\ lkPc' = "pop_sti"
    /\ UNCHANGED <<lkIf, lkInt, lkTimer, lkElapsed, lkPush, lkCalls, lkSaved,
                   lkPanic>>

\* main.rs 317-323: set_interrupt_flag(true), then the redraw that calls
\* get_current_tick
LkPopSti ==
    /\ LkRuns("pop_sti")
    /\ lkIf' = set_interrupt_flag(TRUE)
    /\ lkCalls' = <<"get_current_tick">>
    /\ lkPc' = "draw"
    /\ UNCHANGED <<lkInt, lkEvents, lkTimer, lkQueue, lkElapsed, lkPush,
                   lkMsg, lkSaved, lkPanic>>

\* without_interrupts: the flag is saved and cleared before the closure
LkWithoutInterrupts ==
    /\ \E pc \in {"draw", "match"} : LkRuns(pc)
    /\ lkCalls # <<>>
    /\ lkSaved' = lkIf
    /\ lkIf' = FALSE
    /\ lkPc' = "wi_lock"
    /\ UNCHANGED <<lkInt, lkEvents, lkTimer, lkQueue, lkElapsed, lkPush,
                   lkMsg, lkCalls, lkPanic>>

\* timer.rs 139, 145: the closure of get_current_tick or add_timer ends,
\* its TIMER guard is dropped, and without_interrupts restores the flag
LkWithoutInterruptsEnd ==
    /\ LkRuns("wi_body")
    /\ lkTimer' = SingleMutex_unlock(lkTimer)
    /\ lkIf' = lkSaved
    /\ lkCalls' = Tail(lkCalls)
    /\ lkPc' = "match"
    /\ UNCHANGED <<lkInt, lkEvents, lkQueue, lkElapsed, lkPush, lkMsg,
                   lkSaved, lkPanic>>

\* main.rs 329-345: match msg; a TimerTimeout of timer 1 or 2 calls
\* get_current_tick and add_timer
LkMatch ==
    /\ LkRuns("match")
    /\ lkCalls = <<>>
    /\ IF lkMsg = "timer"
       THEN /\ lkCalls' = <<"get_current_tick", "add_timer">>
            /\ lkMsg' = "none"
            /\ lkPc' = "match"
       ELSE /\ lkPc' = "taskB"
            /\ UNCHANGED <<lkCalls, lkMsg>>
    /\ UNCHANGED <<lkIf, lkInt, lkEvents, lkTimer, lkQueue, lkElapsed,
                   lkPush, lkSaved, lkPanic>>

\* the xHCI interrupt is delivered through its interrupt gate: the flag is
\* cleared and xhci_interrupt_handler starts
LkXhciInterrupt ==
    /\ lkIf
    /\ lkInt = "none"
    /\ ~lkPanic
    /\ lkInt' = "xhci"
    /\ lkIf' = FALSE
    /\ UNCHANGED <<lkPc, lkEvents, lkTimer, lkQueue, lkElapsed, lkPush,
                   lkMsg, lkCalls, lkSaved, lkPanic>>

\* main.rs 430: EVENTS.lock() in xhci_interrupt_handler
LkXhciLock ==
    /\ lkInt = "xhci"
    /\ ~lkPanic
    /\ \E l \in {SingleMutex_lock(lkEvents)} :
          /\ lkEvents' = l.locked
          /\ lkPanic' = ~l.ok
    /\ lkInt' = "xhci_locked"
    /\ UNCHANGED <<lkPc, lkIf, lkTimer, lkQueue, lkElapsed, lkPush, lkMsg,
                   lkCalls, lkSaved>>

\* main.rs 431-433: push, end of interrupt, the guard is dropped and iretq
\* restores the flag of the interrupted code
LkXhciReturn ==
    /\ lkInt = "xhci_locked"
    /\ ~lkPanic
    /\ lkQueue' = lk_push(lkQueue, "xhci")
    /\ lkEvents' = SingleMutex_unlock(lkEvents)
    /\ lkInt' = "none"
    /\ lkIf' = TRUE
    /\ lkPc' = after_interrupt(lkPc)
    /\ UNCHANGED <<lkTimer, lkElapsed, lkPush, lkMsg, lkCalls, lkSaved,
                   lkPanic>>

\* main.rs 436-439: lapic_interrupt_handler, which takes no lock
LkLapicInterrupt ==
    /\ lkIf
    /\ lkInt = "none"
    /\ ~lkPanic
    /\ lkElapsed < MaxLkElapsed
    /\ lkElapsed' = lkElapsed + 1
    /\ lkPc' = after_interrupt(lkPc)
    /\ UNCHANGED <<lkIf, lkInt, lkEvents, lkTimer, lkQueue, lkPush, lkMsg,
                   lkCalls, lkSaved, lkPanic>>

LkNext ==
    \/ LkCli
    \/ LkLockEvents
    \/ LkCheck
    \/ LkIdleSti
    \/ LkHlt
    \/ LkSwap
    \/ LkLockTimer
    \/ LkTick
    \/ LkTickPush
    \/ LkPop
    \/ LkPopSti
    \/ LkWithoutInterrupts
    \/ LkWithoutInterruptsEnd
    \/ LkMatch
    \/ LkXhciInterrupt
    \/ LkXhciLock
    \/ LkXhciReturn
    \/ LkLapicInterrupt

(***************************************************************************)
(* usb/runtime.rs Task and Executor under usb/xhci.rs run_xhci_tasks: a    *)
(* task that receives from a channel the event ring drain sends on and     *)
(* passes each value on to a second task, which ends with Err at one of    *)
(* them                                                                    *)
(***************************************************************************)

\* values the event ring drains send per behaviour
MaxRtSend == 3

\* wakes through further clones of a task's waker per behaviour
MaxRtWakes == 2

\* values the first task receives before its future returns Ok
RtNeed == 2

\* the task that receives from the drain, and the task that receives from it
RtTasks == {1, 2}

\* Sender::send that leaves the stored waker alone
send_wake_never(waker, tasks) ==
    tasks

\* Sender::send after push_back: the stored waker, if any, is taken and
\* woken, which sends its task to the executor's queue
send_wake(waker, tasks) ==
    IF waker # None THEN Append(tasks, waker) ELSE tasks

\* what one poll of the future of task 1 does to state s: it receives from
\* channel a until a is empty or RtNeed values have come, and sends each
\* value on b
poll_first(s) ==
    LET n == IF Len(s.a) < RtNeed - s.cnt THEN Len(s.a) ELSE RtNeed - s.cnt
        taken == SubSeq(s.a, 1, n)
        ready == s.cnt + n >= RtNeed
    IN [ready |-> ready,
        out   |-> IF ready THEN "Ok" ELSE "None",
        s     |-> [s EXCEPT
                     !.a = SubSeq(s.a, n + 1, Len(s.a)),
                     !.cnt = s.cnt + n,
                     !.got = s.got \o taken,
                     !.b = s.b \o taken,
                     !.queue = IF n > 0 THEN send_wake(s.waker_b, s.queue)
                               ELSE s.queue,
                     !.waker_b = IF n > 0 THEN None ELSE s.waker_b,
                     !.waker_a = IF ready THEN s.waker_a ELSE 1]]

\* index of the first value of q that is v, or Len(q) + 1
first_index(q, v) ==
    IF \E i \in 1..Len(q) : q[i] = v
    THEN CHOOSE i \in 1..Len(q) : q[i] = v /\ \A j \in 1..(i - 1) : q[j] # v
    ELSE Len(q) + 1

\* what one poll of the future of task 2 does to state s: it receives from
\* channel b until b is empty, and returns Err at the value s.fail
poll_second(s) ==
    LET i == first_index(s.b, s.fail)
        ready == i <= Len(s.b) \/ s.failed
        n == IF s.failed THEN 0 ELSE IF i <= Len(s.b) THEN i ELSE Len(s.b)
    IN [ready |-> ready,
        out   |-> IF ready THEN "Err" ELSE "None",
        s     |-> [s EXCEPT
                     !.b = SubSeq(s.b, n + 1, Len(s.b)),
                     !.failed = ready,
                     !.waker_b = IF ready THEN s.waker_b ELSE 2]]

\* Future::poll of the future of task t
poll(t, s) ==
    IF t = 1 THEN poll_first(s) ELSE poll_second(s)

\* Task::exec that leaves the future in its slot when it is Ready
Task_exec_keep(t, s) ==
    IF s.future[t]
    THEN LET p == poll(t, s) IN
         [polled |-> TRUE, out |-> p.out, s |-> p.s]
    ELSE [polled |-> FALSE, out |-> "None", s |-> s]

\* Task::exec of task t: the future is polled if the slot holds one, and
\* taken out of the slot when it is Ready
Task_exec(t, s) ==
    IF s.future[t]
    THEN LET p == poll(t, s) IN
         [polled |-> TRUE,
          out    |-> p.out,
          s      |-> IF p.ready
                     THEN [p.s EXCEPT !.future[t] = FALSE]
                     ELSE p.s]
    ELSE [polled |-> FALSE, out |-> "None", s |-> s]

\* Executor::has_next_task that never sees a task
has_next_task_never(tasks) ==
    FALSE

\* Executor::has_next_task
has_next_task(tasks) ==
    tasks # <<>>

\* new_executor_and_spawner, new_channel twice and Spawner::spawn twice, as
\* init_usb and initialize_xhci do; the first handling is about to drain
RtConstruct(f) ==
    /\ rtPhase = "drain"
    /\ rt = [queue |-> <<1, 2>>,
             future |-> [t \in RtTasks |-> TRUE],
             a |-> <<>>, b |-> <<>>,
             waker_a |-> None, waker_b |-> None,
             cnt |-> 0, got |-> <<>>, fail |-> f, failed |-> FALSE]
    /\ rtSent = 0
    /\ rtWakes = 0
    /\ rtOuts = [t \in RtTasks |-> <<>>]
    /\ rtReported = <<>>
    /\ rtLast = [task |-> 0, slot |-> FALSE, polled |-> FALSE,
                 out |-> "None", left |-> 0]

\* the second task ends with Err at any one of the values
RtStart ==
    \E f \in 1..MaxRtSend : RtConstruct(f)

\* the second task ends with Err at the first value
RtIdle ==
    RtConstruct(1)

\* main.rs 330: an Xhci message is handled; the event ring drain starts
RtXhciMessage ==
    /\ rtPhase = "idle"
    /\ rtPhase' = "drain"
    /\ UNCHANGED <<rt, rtSent, rtWakes, rtOuts, rtReported, rtLast>>

\* the drain finds an event whose handler sends on channel a
RtSend ==
    /\ rtPhase = "drain"
    /\ rtSent < MaxRtSend
    /\ rtSent' = rtSent + 1
    /\ rt' = [rt EXCEPT !.a = push_back(rt.a, rtSent + 1),
                        !.queue = send_wake(rt.waker_a, rt.queue),
                        !.waker_a = None]
    /\ UNCHANGED <<rtPhase, rtWakes, rtOuts, rtReported, rtLast>>

\* ArcWake::wake_by_ref through a further clone of the waker of a task that
\* has been polled: a duplicate wake, or a late one if the task has ended
RtWake(t) ==
    /\ rtPhase \in {"drain", "run"}
    /\ rtWakes < MaxRtWakes
    /\ rtOuts[t] # <<>> \/ rt.waker_a = t \/ rt.waker_b = t
    /\ rtWakes' = rtWakes + 1
    /\ rt' = [rt EXCEPT !.queue = Append(rt.queue, t)]
    /\ UNCHANGED <<rtPhase, rtSent, rtOuts, rtReported, rtLast>>

\* the drain has handled every event; the loop of run_xhci_tasks starts
RtDrainEnd ==
    /\ rtPhase = "drain"
    /\ rtPhase' = "run"
    /\ UNCHANGED <<rt, rtSent, rtWakes, rtOuts, rtReported, rtLast>>

\* one round of while has_next_task(): process_next_task receives a task
\* and executes it; an Err is reported and the loop goes on
RtProcessNextTask ==
    /\ rtPhase = "run"
    /\ IF has_next_task(rt.queue)
       THEN \E t \in {Head(rt.queue)} :
            \E r \in {Task_exec(t, [rt EXCEPT !.queue = Tail(rt.queue)])} :
               /\ rt' = r.s
               /\ rtOuts' = IF r.out # "None"
                            THEN [rtOuts EXCEPT ![t] = Append(@, r.out)]
                            ELSE rtOuts
               /\ rtReported' = IF r.out = "Err"
                                THEN Append(rtReported, t)
                                ELSE rtReported
               /\ rtLast' = [task |-> t, slot |-> rt.future[t],
                             polled |-> r.polled, out |-> r.out,
                             left |-> IF t = 1 THEN Len(r.s.a)
                                      ELSE Len(r.s.b)]
               /\ UNCHANGED rtPhase
       ELSE /\ rtPhase' = "idle"
            /\ UNCHANGED <<rt, rtOuts, rtReported, rtLast>>
    /\ UNCHANGED <<rtSent, rtWakes>>

RtNext ==
    \/ RtXhciMessage
    \/ RtSend
    \/ \E t \in RtTasks : RtWake(t)
    \/ RtDrainEnd
    \/ RtProcessNextTask

(***************************************************************************)
(* usb/usbd.rs: the task main_loop spawns for a HID boot device, with      *)
(* subscribe_once of usb/class/mouse.rs and usb/class/keyboard.rs, against *)
(* a controller that completes the transfers of the interrupt endpoint     *)
(***************************************************************************)

\* reports the device sends per behaviour: enough for the ring to wrap twice
MaxReports == 66

\* the slot of the HID device and the DCI of its interrupt IN endpoint
HidSlot == 1
HidEndpoint == 3
HidKey == <<HidSlot, HidEndpoint>>

\* subscribe_once: the Normal TRB, 8 bytes, interrupt on completion
NormalTrb ==
    TransferTrb("Normal", 0, 0, 0, 0, 8, "None", "None", TRUE, FALSE)

\* the ring of the interrupt endpoint and the listeners, as the transfer
\* side of the driver sees them
HidSt ==
    [rings |-> (HidKey :> hidRing), listener |-> hidListener,
     hw |-> (HidKey :> hidHw), pushed |-> <<>>, bells |-> <<>>]

\* enable_endpoints has made the ring; the task is spawned and not yet polled
HidStart ==
    /\ hidRing = ProducerRing_new
    /\ hidListener = {}
    /\ hidHw = <<>>
    /\ hidPc = "spawned"
    /\ hidPushes = 0
    /\ hidBuf = 0
    /\ hidRecv = "None"
    /\ hidEvents = 0
    /\ hidOk = 0
    /\ hidCalled = 0
    /\ hidLastCall = [buf |-> 0, pushes |-> 0]
    /\ hidLastOk = 0
    /\ hidErr = FALSE

\* MouseClass::subscribe_once / KeyboardClass::subscribe_once on state st
subscribe_once(st) ==
    LET r == push_transfer_trb(st, HidSlot, HidEndpoint, NormalTrb) IN
    IF r.ok
    THEN [ok |-> TRUE, st |-> ring_doorbell(r.st, HidSlot, HidEndpoint)]
    ELSE [ok |-> FALSE, st |-> r.st]

\* one poll of the task: after a transfer that is_ok the callback is called
\* with its buffer; then subscribe_once runs, and its Err ends the task
HidPoll ==
    /\ hidPc \in {"spawned", "woken"}
    /\ LET called == hidPc = "woken" /\ hidRecv = "Ok" IN
       /\ hidCalled' = IF called THEN hidCalled + 1 ELSE hidCalled
       /\ hidLastCall' = IF called
                         THEN [buf |-> hidBuf, pushes |-> hidPushes]
                         ELSE hidLastCall
    /\ \E r \in {subscribe_once(HidSt)} :
          /\ hidRing' = r.st.rings[HidKey]
          /\ hidListener' = r.st.listener
          /\ hidHw' = r.st.hw[HidKey]
          /\ hidPushes' = IF r.ok THEN hidPushes + 1 ELSE hidPushes
          /\ hidBuf' = IF r.ok THEN hidPushes + 1 ELSE hidBuf
          /\ hidErr' = ~r.ok
          /\ hidPc' = IF r.ok THEN "await" ELSE "ended"
    /\ hidRecv' = "None"
    /\ UNCHANGED <<hidEvents, hidOk, hidLastOk>>

\* the device sends a report or fails: the controller completes the oldest
\* TRB of the ring, and the event ring drain hands its TransferEvent to
\* on_trf_event, which sends the result to the oneshot of the task
HidTransferEvent(code) ==
    /\ hidEvents < MaxReports
    /\ hidHw # <<>>
    /\ LET evt == TransferEventTrb(HidSlot, HidEndpoint, Head(hidHw), code)
           had == <<HidSlot, HidEndpoint, Head(hidHw)>> \in hidListener
       IN
       \E r \in {on_trf_event([HidSt EXCEPT !.hw[HidKey] = Tail(@)], evt)} :
          /\ hidRing' = r.st.rings[HidKey]
          /\ hidListener' = r.st.listener
          /\ hidHw' = r.st.hw[HidKey]
          /\ hidRecv' = IF r.sent = {} THEN hidRecv
                        ELSE (CHOOSE s \in r.sent : TRUE).result
          /\ hidPc' = IF r.sent = {} THEN hidPc ELSE "woken"
    /\ hidEvents' = hidEvents + 1
    /\ hidOk' = IF code \in {"Success", "ShortPacket"}
                THEN hidOk + 1 ELSE hidOk
    /\ hidLastOk' = IF code \in {"Success", "ShortPacket"}
                    THEN hidPushes ELSE hidLastOk
    /\ UNCHANGED <<hidPushes, hidBuf, hidCalled, hidLastCall, hidErr>>

HidNext ==
    \/ HidPoll
    \/ \E code \in TransferCodes : HidTransferEvent(code)

Start ==
    /\ RingStart
    /\ ChanStart
    /\ BcStart
    /\ TimerStart
    /\ AddrIdle
    /\ TrfStart
    /\ CmdIdle
    /\ MemIdle
    /\ SlabIdle
    /\ LoopStart
    /\ UsbdStart
    /\ ErStart
    /\ LkStart
    /\ RtIdle
    /\ HidStart

\* a step of this part of the kernel leaves the other parts alone
KeepRing ==
    UNCHANGED <<chanVars, bcVars, timerVars, addrVars, trfVars, cmdVars,
                memVars, slabVars, loopVars, usbdVars, erVars, lkVars,
                rtVars, hidVars>>

\* a step of this part of the kernel leaves the other parts alone
KeepChan ==
    UNCHANGED <<ringVars, bcVars, timerVars, addrVars, trfVars, cmdVars,
                memVars, slabVars, loopVars, usbdVars, erVars, lkVars,
                rtVars, hidVars>>

\* a step of this part of the kernel leaves the other parts alone
KeepBc ==
    UNCHANGED <<ringVars, chanVars, timerVars, addrVars, trfVars, cmdVars,
                memVars, slabVars, loopVars, usbdVars, erVars, lkVars,
                rtVars, hidVars>>

\* a step of this part of the kernel leaves the other parts alone
KeepTimer ==
    UNCHANGED <<ringVars, chanVars, bcVars, addrVars, trfVars, cmdVars,
                memVars, slabVars, loopVars, usbdVars, erVars, lkVars,
                rtVars, hidVars>>

\* a step of this part of the kernel leaves the other parts alone
KeepAddr ==
    UNCHANGED <<ringVars, chanVars, bcVars, timerVars, trfVars, cmdVars,
                memVars, slabVars, loopVars, usbdVars, erVars, lkVars,
                rtVars, hidVars>>

\* a step of this part of the kernel leaves the other parts alone
KeepTrf ==
    UNCHANGED <<ringVars, chanVars, bcVars, timerVars, addrVars, cmdVars,
                memVars, slabVars, loopVars, usbdVars, erVars, lkVars,
                rtVars, hidVars>>

\* a step of this part of the kernel leaves the other parts alone
KeepCmd ==
    UNCHANGED <<ringVars, chanVars, bcVars, timerVars, addrVars, trfVars,
                memVars, slabVars, loopVars, usbdVars, erVars, lkVars,
                rtVars, hidVars>>

\* a step of this part of the kernel leaves the other parts alone
KeepMem ==
    UNCHANGED <<ringVars, chanVars, bcVars, timerVars, addrVars, trfVars,
                cmdVars, slabVars, loopVars, usbdVars, erVars, lkVars,
                rtVars, hidVars>>

\* a step of this part of the kernel leaves the other parts alone
KeepSlab ==
    UNCHANGED <<ringVars, chanVars, bcVars, timerVars, addrVars, trfVars,
                cmdVars, memVars, loopVars, usbdVars, erVars, lkVars,
                rtVars, hidVars>>

\* a step of this part of the kernel leaves the other parts alone
KeepLoop ==
    UNCHANGED <<ringVars, chanVars, bcVars, timerVars, addrVars, trfVars,
                cmdVars, memVars, slabVars, usbdVars, erVars, lkVars,
                rtVars, hidVars>>

\* a step of this part of the kernel leaves the other parts alone
KeepUsbd ==
    UNCHANGED <<ringVars, chanVars, bcVars, timerVars, addrVars, trfVars,
                cmdVars, memVars, slabVars, loopVars, erVars, lkVars,
                rtVars, hidVars>>

\* a step of this part of the kernel leaves the other parts alone
KeepEr ==
    UNCHANGED <<ringVars, chanVars, bcVars, timerVars, addrVars, trfVars,
                cmdVars, memVars, slabVars, loopVars, usbdVars, lkVars,
                rtVars, hidVars>>

\* a step of this part of the kernel leaves the other parts alone
KeepLk ==
    UNCHANGED <<ringVars, chanVars, bcVars, timerVars, addrVars, trfVars,
                cmdVars, memVars, slabVars, loopVars, usbdVars, erVars,
                rtVars, hidVars>>

\* a step of this part of the kernel leaves the other parts alone
KeepRt ==
    UNCHANGED <<ringVars, chanVars, bcVars, timerVars, addrVars, trfVars,
                cmdVars, memVars, slabVars, loopVars, usbdVars, erVars,
                lkVars, hidVars>>

\* a step of this part of the kernel leaves the other parts alone
KeepHid ==
    UNCHANGED <<ringVars, chanVars, bcVars, timerVars, addrVars, trfVars,
                cmdVars, memVars, slabVars, loopVars, usbdVars, erVars,
                lkVars, rtVars>>

RingInit == Start

SpecRing ==
    RingInit /\ [][RingNext /\ KeepRing]_vars

ChanInit == Start

SpecChan ==
    ChanInit /\ [][ChanNext /\ KeepChan]_vars

BcInit == Start

SpecBc ==
    BcInit /\ [][BcNext /\ KeepBc]_vars

TimerInit == Start

SpecTimer ==
    TimerInit /\ [][TimerNext /\ KeepTimer]_vars

AddrInit ==
    /\ RingStart
    /\ ChanStart
    /\ BcStart
    /\ TimerStart
    /\ AddrStart
    /\ TrfStart
    /\ CmdIdle
    /\ MemIdle
    /\ SlabIdle
    /\ LoopStart
    /\ UsbdStart
    /\ ErStart
    /\ LkStart
    /\ RtIdle
    /\ HidStart

SpecAddr ==
    AddrInit /\ [][AddrNext /\ KeepAddr]_vars

TrfInit == Start

SpecTrf ==
    TrfInit /\ [][TrfNext /\ KeepTrf]_vars

CmdInit ==
    /\ RingStart
    /\ ChanStart
    /\ BcStart
    /\ TimerStart
    /\ AddrIdle
    /\ TrfStart
    /\ CmdStart
    /\ MemIdle
    /\ SlabIdle
    /\ LoopStart
    /\ UsbdStart
    /\ ErStart
    /\ LkStart
    /\ RtIdle
    /\ HidStart

SpecCmd ==
    CmdInit /\ [][CmdNext /\ KeepCmd]_vars

MemInit ==
    /\ RingStart
    /\ ChanStart
    /\ BcStart
    /\ TimerStart
    /\ AddrIdle
    /\ TrfStart
    /\ CmdIdle
    /\ MemStart
    /\ SlabIdle
    /\ LoopStart
    /\ UsbdStart
    /\ ErStart
    /\ LkStart
    /\ RtIdle
    /\ HidStart

SpecMem ==
    MemInit /\ [][MemNext /\ KeepMem]_vars

SlabInit ==
    /\ RingStart
    /\ ChanStart
    /\ BcStart
    /\ TimerStart
    /\ AddrIdle
    /\ TrfStart
    /\ CmdIdle
    /\ MemIdle
    /\ SlabStart
    /\ LoopStart
    /\ UsbdStart
    /\ ErStart
    /\ LkStart
    /\ RtIdle
    /\ HidStart

SpecSlab ==
    SlabInit /\ [][SlabNext /\ KeepSlab]_vars

LoopInit == Start

SpecLoop ==
    LoopInit /\ [][LoopNext /\ KeepLoop]_vars

UsbdInit == Start

SpecUsbd ==
    UsbdInit /\ [][UsbdNext /\ KeepUsbd]_vars

ErInit == Start

SpecEr ==
    ErInit /\ [][ErNext /\ KeepEr]_vars

LkInit == Start

SpecLk ==
    LkInit /\ [][LkNext /\ KeepLk]_vars

RtInit ==
    /\ RingStart
    /\ ChanStart
    /\ BcStart
    /\ TimerStart
    /\ AddrIdle
    /\ TrfStart
    /\ CmdIdle
    /\ MemIdle
    /\ SlabIdle
    /\ LoopStart
    /\ UsbdStart
    /\ ErStart
    /\ LkStart
    /\ RtStart
    /\ HidStart

SpecRt ==
    RtInit /\ [][RtNext /\ KeepRt]_vars

HidInit == Start

SpecHid ==
    HidInit /\ [][HidNext /\ KeepHid]_vars

\* the steps of the kernel: the event ring drain and the port task
AddrDriverNext ==
    \/ Interrupt
    \/ ProcessEvent
    \/ EndEvents
    \/ EndTasks
    \/ PortTaskBoot
    \/ PortTaskReceive
    \/ InitDeviceExclusive
    \/ WaitPortReset
    \/ WaitEnableSlot
    \/ WaitAddressDevice
    \/ ActionBoot
    \/ ActionReceive

\* a controller that completes every command with Success
AddrNextSuccess ==
    \/ \E p \in Ports, s \in Speeds : HwConnect(p, s)
    \/ \E p \in Ports : HwResetDone(p)
    \/ HwCommand("Success")
    \/ AddrDriverNext

\* the kernel main loop keeps running, the controller ends every port reset
\* and executes every command
AddrFairness(ok) ==
    /\ WF_vars(AddrDriverNext /\ KeepAddr)
    /\ WF_vars((\E p \in Ports : HwResetDone(p))
                /\ KeepAddr)
    /\ WF_vars((\E code \in ok : HwCommand(code))
                /\ KeepAddr)

\* addressing with a controller that answers every reset and every command
\* with Success
SpecAddrLive ==
    /\ AddrInit
    /\ [][AddrNextSuccess /\ KeepAddr]_vars
    /\ AddrFairness({"Success"})

\* addressing with a controller that answers every reset and every command,
\* with any completion code
SpecAddrFair ==
    /\ AddrInit
    /\ [][AddrNext /\ KeepAddr]_vars
    /\ AddrFairness({"Success", "TrbError"})

\* the event loop with a processor that keeps running whichever task it
\* is in; interrupts come when they come
SpecLoopFair ==
    /\ LoopInit
    /\ [][LoopNext /\ KeepLoop]_vars
    /\ WF_vars(LoopStep /\ KeepLoop)

\* every handling of an Xhci message goes on: the drain ends and the loop of
\* run_xhci_tasks takes its next round
SpecRtFair ==
    /\ RtInit
    /\ [][RtNext /\ KeepRt]_vars
    /\ WF_vars(RtDrainEnd /\ KeepRt)
    /\ WF_vars(RtProcessNextTask /\ KeepRt)

\* the transfer rings under a caller that does not wait
SpecTrfBusy ==
    TrfInit /\ [][TrfBusyNext /\ KeepTrf]_vars

(***************************************************************************)
(* Producer ring: full detection and cycle bits                            *)
(***************************************************************************)

\* slots the producer may write: the ring without the Link TRB slot
Capacity == RingSize - 1

\* C1: push returns RingIsFull exactly when the index after enqueue (wrapping
\* before the Link slot) is the dequeue index; on a ring whose dequeue index
\* was never advanced the first Capacity - 1 pushes succeed and the next fails.
C1_FullDetection ==
    ringRes.op = "push" =>
        /\ (~ringRes.ok) <=> ((ringRes.enq + 1) % Capacity = ringRes.deq)
        /\ ~dequeued => (ringRes.ok <=> ringRes.n < Capacity - 1)

\* the push after Capacity - 1 successful ones, on a fresh ring, was refused
C1_Witness ==
    /\ ringRes.op = "push"
    /\ ~ringRes.ok
    /\ ~dequeued
    /\ ringRes.n = Capacity - 1

\* C2: the TRB written by the n-th successful push (n = 0, 1, ...) lies in
\* pass n \div Capacity and carries cycle bit 1 in even passes, 0 in odd ones;
\* the producer cycle state is 1 in even passes and 0 in odd ones.
C2_CycleToggling ==
    /\ \A i \in 0..(RingSize - 2) :
          ring.data[i].seq >= 0 =>
              (ring.data[i].cycle <=> ((ring.data[i].seq \div Capacity) % 2 = 0))
    /\ ring.cycle_state <=> ((npush \div Capacity) % 2 = 0)

\* TRBs of pass 1 (cycle 0) and of pass 2 (cycle 1 again) are in the ring
C2_Witness ==
    /\ \E i \in 0..(RingSize - 2) :
          /\ ring.data[i].seq >= 2 * Capacity
          /\ ring.data[i].cycle
    /\ \E i \in 0..(RingSize - 2) :
          /\ ring.data[i].seq \div Capacity = 1
          /\ ~ring.data[i].cycle
    /\ dequeued

(***************************************************************************)
(* Runtime channel: FIFO                                                   *)
(***************************************************************************)

\* C3: the values received so far, followed by the values still queued, are
\* exactly the values sent, in send order: the k-th value received is the
\* k-th value sent, none lost, none duplicated.
C3_ChannelFifo ==
    chRcvd \o chQueue = chSent

\* two different values from two sender clones were received in send order,
\* one by the non-blocking receive and one by a poll, a third still queued
C3_Witness ==
    /\ Len(chRcvd) >= 2
    /\ chRcvd[1].from # chRcvd[2].from
    /\ chRcvd[1].val # chRcvd[2].val
    /\ chRes.op = "poll"
    /\ chRes.some
    /\ chQueue # <<>>
    /\ chWoken # <<>>

(***************************************************************************)
(* Broadcast latch                                                         *)
(***************************************************************************)

\* C4: a poll returns Ready exactly when send was called at least once before
\* it (so every poll before the first send is Pending and every poll after a
\* single send is Ready, on every clone); once send was called, every waker
\* registered by a Pending poll has been woken and none is left registered.
C4_BroadcastLatch ==
    /\ bcRes.op = "poll" => (bcRes.ready <=> bcRes.sends >= 1)
    /\ bcSends >= 1 => (bcWoken = bcReg /\ bcWakers = <<>>)
    /\ bcSends = 0 => (bcWoken = <<>> /\ bcWakers = bcReg)

\* two tasks were pending before the only send, both were woken by it, and a
\* poll after it returned Ready
C4_Witness ==
    /\ bcSends = 1
    /\ Len(bcWoken) >= 2
    /\ bcWoken[1] # bcWoken[2]
    /\ bcRes.op = "poll"
    /\ bcRes.ready
    /\ bcRes.clone = 2

(***************************************************************************)
(* Software timers                                                         *)
(***************************************************************************)

\* the add_timer calls so far, by number
TimerIds == 1..Len(added)

\* where tick() pushed the message of timer id in tlog (0: not yet)
Pos(id) ==
    IF \E p \in 1..Len(tlog) : tlog[p].id = id
    THEN CHOOSE p \in 1..Len(tlog) : tlog[p].id = id
    ELSE 0

\* timer id is in the heap
Pending(id) ==
    \E i \in 1..Len(timers) : timers[i].id = id

\* both timers were added before either of them fired
CoPending(a, b) ==
    /\ Pos(b) = 0 \/ added[a].at < Pos(b)
    /\ Pos(a) = 0 \/ added[b].at < Pos(a)

LiveMessages ==
    {events.data[(events.read_pos + k) % QueueCap] : k \in 0..(events.cnt - 1)}

C7_OneTaskTimer ==
    /\ Len(SelectSeq(timers, LAMBDA x : x.value = TASK_TIMER_VALUE)) = 1
    /\ task_timeout(timers) >= tick

\* a tick() fired the task timer and armed it again, with other timers in
\* the heap
C7_Witness ==
    /\ tickRes.op = "tick"
    /\ tickRes.ret
    /\ task_timeout(timers) = tick + TASK_TIMER_PERIOD
    /\ Len(timers) >= 3

\* C8 as stated: the tick() that brings the tick to exactly the task timer's
\* timeout returns true; from tick 0, tick(2) returns true and leaves the
\* task timer armed for tick 4.
C8_FiresAtTimeout ==
    tickRes.op = "tick" =>
        /\ tickRes.now = tickRes.due => tickRes.ret
        /\ (tickRes.now = 2 /\ tickRes.elapsed = 2) =>
               (tickRes.ret /\ task_timeout(timers) = 4)

(***************************************************************************)
(* Port addressing: one port at a time, steps in order                     *)
(***************************************************************************)

HasStep(p, name) ==
    \E i \in 1..Len(steps[p]) : steps[p][i].step = name

LastStep(p) ==
    IF steps[p] = <<>> THEN "None" ELSE steps[p][Len(steps[p])].step

\* the port reset of p is issued and unanswered, or a command for p is
\* outstanding
Busy(p) ==
    \/ portsc[p].pr
    \/ LastStep(p) \in {"PortReset", "EnableSlot", "AddressDevice"}

\* p has been reset and its AddressDevice has not completed
InSection(p) ==
    HasStep(p, "PortReset") /\ ~HasStep(p, "AddressCompletion")

\* C9: at most one port is inside the reset / enable-slot / address-device
\* section: no port has its reset issued or a command outstanding while
\* another port has been reset and has not finished AddressDevice
C9_OnePortInSection ==
    /\ \A p, q \in Ports :
           p # q => ~(Busy(p) /\ InSection(q))
    /\ Cardinality({p \in Ports : InSection(p)}) <= 1

\* one port went through the section and another one is inside it now
C9_Witness ==
    \E p, q \in Ports :
        /\ p # q
        /\ HasStep(p, "PortReset")
        /\ HasStep(p, "AddressCompletion")
        /\ InSection(q)
        /\ Busy(q)

\* the steps of one addressing, in order
AddressingSteps ==
    <<"PortReset", "PortResetChange", "EnableSlot", "SlotCompletion",
      "AddressDevice", "AddressCompletion", "Notify">>

\* C10: for each port the steps happen in this order, each once: port
\* reset written, PortStatusChange with PRC, EnableSlot pushed, its
\* completion, AddressDevice pushed with that slot id and the port's number
\* and speed, its completion with Success, the slot id sent on the channel
C10_StepsInOrder ==
    \A p \in Ports :
        LET s == steps[p] IN
        /\ Len(s) <= Len(AddressingSteps)
        /\ \A i \in 1..Len(s) : s[i].step = AddressingSteps[i]
        /\ Len(s) >= 5 =>
               /\ s[5].slot_id = s[4].slot_id
               /\ s[5].port_number = p + 1
               /\ s[5].speed = portsc[p].speed
        /\ Len(s) >= 7 =>
               /\ s[6].code = "Success"
               /\ s[7].slot_id = s[4].slot_id

\* port p reports a new connection
NewConnection(p) ==
    portsc[p].ccs /\ portsc[p].csc

\* port p was reset and addressed and its slot id was emitted
Served(p) ==
    /\ HasStep(p, "PortReset")
    /\ HasStep(p, "Notify")
    /\ \E i \in 1..Len(addrOut) :
           \E j \in 1..Len(steps[p]) :
               steps[p][j].step = "Notify" /\ steps[p][j].slot_id = addrOut[i]

\* C11: with every reset answered by PRC and every command by Success, each
\* port that reports a new connection is eventually reset and addressed and
\* its slot id is eventually emitted on the address-device channel
C11_AllServed ==
    \A p \in Ports : NewConnection(p) ~> Served(p)

\* the AddressDevice command for port p completed with a code other than
\* Success
AddressFailed(p) ==
    \E i \in 1..Len(steps[p]) :
        steps[p][i].step = "AddressCompletion" /\ steps[p][i].code # "Success"

\* port p was reset and its AddressDevice command was issued and answered
ResetAndAddressed(p) ==
    HasStep(p, "PortReset") /\ HasStep(p, "AddressCompletion")

\* C12: after the AddressDevice of a port fails no slot id is emitted for
\* that port, and every other port that reports a new connection then is
\* still reset and addressed
C12_FailureIsolated ==
    /\ [](\A q \in Ports : AddressFailed(q) => ~HasStep(q, "Notify"))
    /\ \A p, q \in Ports :
           (p # q /\ AddressFailed(q) /\ NewConnection(p))
               ~> ResetAndAddressed(p)

(***************************************************************************)
(* Transfer events and control requests                                    *)
(***************************************************************************)

\* C13: after a TransferEvent for (slot, endpoint) with pointer p the dequeue
\* index of that ring is one past p, wrapping before the Link slot; a oneshot
\* registered at p is removed and gets Ok for Success and ShortPacket and Err
\* for every other code; no other listener and no other ring is touched
C13_TransferEvent ==
    trfRes.op = "event" =>
        LET e == trfRes.evt
            key == <<e.slot_id, e.endpoint_id>>
            p == <<e.slot_id, e.endpoint_id, e.index>>
        IN
        /\ trfRings[key].deque =
               (IF e.index + 1 = RingSize - 1 THEN 0 ELSE e.index + 1)
        /\ trfRes.others
        /\ trfRes.kept
        /\ p \notin trfListener
        /\ \A s \in trfRes.sent : s.ptr = p
        /\ trfRes.had =>
               trfRes.sent =
                   {[ptr |-> p,
                     result |-> IF e.code \in {"Success", "ShortPacket"}
                                THEN "Ok" ELSE "Err"]}
        /\ ~trfRes.had => trfRes.sent = {}

\* a ShortPacket event for the last TRB before the Link slot, with a
\* listener, while the other ring holds TRBs of its own
C13_Witness ==
    /\ trfRes.op = "event"
    /\ trfRes.had
    /\ trfRes.evt.code = "ShortPacket"
    /\ trfRes.evt.index = RingSize - 2
    /\ \E k \in TrfKeys :
           /\ k # <<trfRes.evt.slot_id, trfRes.evt.endpoint_id>>
           /\ hwTrbs[k] # <<>>


\* the command ring after a CommandCompletion event was drained
CompletionDrained ==
    cmdRes.op = "CommandCompletion"

\* C14: draining a CommandCompletion event with command-TRB pointer p leaves
\* the command ring's deque index one past p (wrapping before the Link
\* slot) and hands the event to the oneshot registered for p, and a caller
\* that issues its commands one at a time is never refused with RingIsFull
C14_CommandCompletion ==
    /\ CompletionDrained =>
           /\ cmdSt.cmdRing.deque =
                  (IF cmdRes.ptr + 1 = RingSize - 1 THEN 0
                   ELSE cmdRes.ptr + 1)
           /\ cmdRes.had =>
                  /\ cmdSt.xhc.cmd_result.type = "CommandCompletion"
                  /\ cmdSt.xhc.cmd_result.ptr = cmdRes.ptr
                  /\ cmdSt.xhc.cmd_result.slot_id = cmdRes.slot_id
                  /\ cmdRes.ptr \notin cmdSt.xhc.cmd_callbacks
    /\ cmdRes.op = "push" => cmdRes.ok

\* C15: an event TRB of a type other than PortStatusChange, TransferEvent
\* and CommandCompletion is skipped: the kernel does not halt on it
C15_OtherEventsIgnored ==
    cmdHalted = FALSE


\* the last step was a control_request that returned Ok
Requested ==
    trfRes.op = "control_request" /\ trfRes.ok

\* the kinds of the TRBs the last control_request pushed, in order
PushedKinds ==
    [i \in 1..Len(trfRes.pushed) |-> trfRes.pushed[i].trb.kind]

\* C16: control_request pushes onto the endpoint-1 ring of its slot, at
\* consecutive ring positions, exactly SETUP, STATUS when length == 0 and
\* exactly SETUP, DATA, STATUS when length > 0; it rings the doorbell of
\* the slot with target 1 once, after the last push; the oneshot it returns
\* is registered at the address of the SETUP TRB when length == 0 and of
\* the DATA TRB when length > 0; the SETUP of SetProtocol on interface 0
\* carries bmRequestType 0x21, bRequest 11, wValue 0, wIndex 0, wLength 0
\* and transfer type No
C16_ControlRequest ==
    Requested =>
        LET s == trfRes.setup
            P == trfRes.pushed
        IN
        /\ PushedKinds = (IF s.length = 0
                          THEN <<"SetupStage", "StatusStage">>
                          ELSE <<"SetupStage", "DataStage", "StatusStage">>)
        /\ \A i \in 1..Len(P) :
               /\ P[i].ptr[1] = trfRes.slot_id
               /\ P[i].ptr[2] = 1
        /\ \A i \in 1..(Len(P) - 1) :
               P[i + 1].ptr[3] = (IF P[i].ptr[3] + 1 = RingSize - 1 THEN 0
                                  ELSE P[i].ptr[3] + 1)
        /\ trfRes.bells = <<[slot_id |-> trfRes.slot_id, target |-> 1,
                             pushes |-> Len(P)]>>
        /\ trfRes.ptr = P[IF s.length = 0 THEN 1 ELSE 2].ptr
        /\ trfRes.ptr \in trfListener
        /\ (s.request_type = "SetProtocol" /\ s.length = 0) =>
               /\ P[1].trb.request_type = 33
               /\ P[1].trb.request = 11
               /\ P[1].trb.value = 0
               /\ P[1].trb.index = 0
               /\ P[1].trb.length = 0
               /\ P[1].trb.transfer_type = "No"

\* SetProtocol without data on a ring that was used before
C16_Witness ==
    /\ Requested
    /\ trfRes.setup.request_type = "SetProtocol"
    /\ trfRes.setup.length = 0
    /\ trfRes.ptr[3] > 0
    /\ Len(trfRes.pushed) = 2

\* the STATUS stage TRB of the last control_request
StatusTrb ==
    trfRes.pushed[Len(trfRes.pushed)].trb

\* whether the last control_request was device-to-host: bit 7 of the
\* bmRequestType its SETUP carries
DeviceToHost ==
    trfRes.pushed[1].trb.request_type \div 128 = 1

\* C17 as stated: the STATUS stage is, for length == 0, in when the request
\* is device-to-host and out otherwise; for length > 0 the reverse of the
\* data direction
C17_StatusByRequest ==
    Requested =>
        /\ StatusTrb.kind = "StatusStage"
        /\ StatusTrb.direction =
               (IF trfRes.setup.length = 0
                THEN (IF DeviceToHost THEN "In" ELSE "Out")
                ELSE (IF DeviceToHost THEN "Out" ELSE "In"))

\* C17: the STATUS stage is in for every request with length == 0, and for
\* length > 0 the reverse of the data direction: out for device-to-host
\* requests, in for host-to-device requests
C17_StatusDirection ==
    Requested =>
        /\ StatusTrb.kind = "StatusStage"
        /\ StatusTrb.direction =
               (IF trfRes.setup.length = 0 THEN "In"
                ELSE (IF DeviceToHost THEN "Out" ELSE "In"))

\* a host-to-device request without data pushed its STATUS stage
C17_Witness ==
    /\ Requested
    /\ trfRes.setup.length = 0
    /\ ~DeviceToHost
    /\ StatusTrb.kind = "StatusStage"


\* C18: when allocate(n) returned start s, free(s, n) leaves the bitmap as
\* it was before that allocate, and an allocate(n) right after the free
\* returns s again
C18_RoundTrip ==
    /\ memTrip.stage = "freed" => memTrip.after = memTrip.before
    /\ memTrip.stage = "again" => memTrip.start = memTrip.first

\* a run of two frames was allocated, freed and allocated again while
\* another run is held below it
C18_Witness ==
    /\ memTrip.stage = "again"
    /\ memTrip.nframes = 2
    /\ memTrip.start # NoFrame
    /\ \E run \in memHeld : run[2] > 0 /\ run[1] < memTrip.start

\* the last call of allocate or free
LastCall ==
    memHist[Len(memHist)]

\* frames s .. s+n-1 lie in the available range and are all clear in the
\* bitmap bits
Fits(bits, s, n) ==
    /\ availableRange[1] <= s
    /\ s + n <= availableRange[2]
    /\ \A f \in s..(s + n - 1) : f \notin bits

\* the starts of the runs of n clear frames in the available range
Runs(bits, n) ==
    {s \in availableRange[1]..availableRange[2] : Fits(bits, s, n)}

\* C19: allocate(n) returns the lowest start of a run of n clear frames in
\* the available range and sets exactly the bits of that run, and it
\* returns None, leaving the bitmap alone, only when there is no such run
C19_FirstFit ==
    (memHist # <<>> /\ LastCall.op = "allocate") =>
        LET c == LastCall
            runs == Runs(c.before, c.nframes)
        IN
        IF runs = {}
        THEN c.kind = "None" /\ c.after = c.before
        ELSE /\ c.kind = "Some"
             /\ c.start \in runs
             /\ \A s \in runs : c.start <= s
             /\ c.after = c.before \cup (c.start..(c.start + c.nframes - 1))

\* the bitmap right after new_at on the memory map of the scenario
Fresh ==
    new_at(ScenarioMap).alloc_map

\* the last call was allocate(nframes) on the bitmap bits of the scenario
ScenarioCall(nframes, bits) ==
    /\ memMap = ScenarioMap
    /\ memHist # <<>>
    /\ LastCall.op = "allocate"
    /\ LastCall.nframes = nframes
    /\ LastCall.before = bits

\* the call before the last one gave back the last run that was held
AllFreed ==
    /\ Len(memHist) = 2
    /\ memHist[1].op = "free"
    /\ memHist[1].after = Fresh
    /\ memHeld \subseteq {<<LastCall.start, LastCall.nframes>>}

\* C20 as stated: on the memory map of the scenario allocate(1) returns
\* frame 0x100, the allocate(256) after it returns frame 0x201, and once
\* both runs are freed allocate(512) succeeds
C20_ScenarioSucceeds ==
    /\ ScenarioCall(1, Fresh) =>
           LastCall.kind = "Some" /\ LastCall.start = 256
    /\ ScenarioCall(256, Fresh \cup {256}) =>
           LastCall.kind = "Some" /\ LastCall.start = 513
    /\ (ScenarioCall(512, Fresh) /\ AllFreed) => LastCall.kind = "Some"

\* C20: on the memory map of the scenario allocate(1) returns frame 0x100,
\* the allocate(256) after it returns frame 0x201, and once both runs are
\* freed allocate(512) returns None and changes nothing: the reserved frame
\* 0x200 leaves no run of 512 clear frames
C20_Scenario ==
    /\ ScenarioCall(1, Fresh) =>
           LastCall.kind = "Some" /\ LastCall.start = 256
    /\ ScenarioCall(256, Fresh \cup {256}) =>
           LastCall.kind = "Some" /\ LastCall.start = 513
    /\ (ScenarioCall(512, Fresh) /\ AllFreed) =>
           /\ LastCall.kind = "None"
           /\ LastCall.after = Fresh
           /\ Runs(Fresh, 512) = {}

\* allocate(512) right after the runs of allocate(1) and allocate(256) were
\* freed, the run of 256 frames at 0x201 last
C20_Witness ==
    /\ ScenarioCall(512, Fresh)
    /\ AllFreed
    /\ memHist[1].start = 513
    /\ memHist[1].nframes = 256
    /\ memHist[1].before = Fresh \cup (513..768)


\* the frames of a run <<start, nframes>>
RunFrames(run) ==
    run[1]..(run[1] + run[2] - 1)

\* frame f lies in a descriptor of conventional, boot-services code or
\* boot-services data memory of the memory map
UsableFrame(f) ==
    \E i \in 1..Len(memMap) :
        /\ memMap[i].type_ \in {"EfiConventionalMemory",
                                "EfiBootServicesCode", "EfiBootServicesData"}
        /\ memMap[i].physical_start <= f * BYTES_PER_FRAME
        /\ f * BYTES_PER_FRAME <
               memMap[i].physical_start + memMap[i].num_pages * UEFI_PAGE_SIZE

\* C21: the runs handed out and not yet freed are pairwise disjoint, none
\* holds frame 0, and every frame of a run lies in a conventional,
\* boot-services code or boot-services data descriptor of the memory map,
\* never in another region or in a gap between descriptors
C21_RunsDisjointUsable ==
    /\ \A r1, r2 \in memHeld :
           r1 # r2 => RunFrames(r1) \cap RunFrames(r2) = {}
    /\ \A r \in memHeld :
           /\ 0 \notin RunFrames(r)
           /\ \A f \in RunFrames(r) : UsableFrame(f)

\* two runs are held on a memory map with a gap between its descriptors,
\* one below the gap and one above it
C21_Witness ==
    /\ Len(memMap) = 2
    /\ \E r1, r2 \in memHeld :
           /\ r1[2] > 0 /\ r2[2] > 1
           /\ r1[1] + r1[2] - 1 < 2
           /\ r2[1] > 2


\* C22: every pointer alloc returns that is not null is a multiple of the
\* align of the layout, and alloc in run_allocator_tests (sizes and aligns
\* 1, 2, .. 128, up to 10 objects of the layout live) never returns null
C22_Aligned ==
    /\ ~slabCaller.halted
    /\ slabRes.op = "alloc" =>
           /\ slabRes.ptr # NullPtr => slabRes.ptr % slabRes.layout[2] = 0
           /\ slabRes.test => slabRes.ptr # NullPtr

\* the tenth object of size 1 and align 128, taken from behind objects
\* that are not aligned
C22_Witness ==
    /\ slabRes.op = "alloc"
    /\ slabRes.test
    /\ slabRes.layout = <<1, 128>>
    /\ slabRes.live = TEST_OBJECTS - 1
    /\ slabRes.ptr # NullPtr
    /\ slabRes.ptr # slabRes.before[slabRes.index][1]

\* the sequence seq without its entries equal to x
Without(seq, x) ==
    SelectSeq(seq, LAMBDA y : y # x)

\* the class whose page holds the object at ptr
ClassOf(ptr) ==
    CHOOSE i \in 1..N_BLOCK_SIZES : ptr \in PageObjects(i)

\* C23: the live objects are pairwise distinct and do not overlap, none of
\* them is on a free list and each still holds the data its owner wrote;
\* alloc takes exactly the object it returns off the free list of its
\* class and leaves the other entries and their order, and the other
\* lists, as they were; dealloc puts the object at the front of the free
\* list of the class it came from
C23_LiveObjectsApart ==
    /\ \A i, j \in 1..Len(slabLive) :
           i # j =>
               \/ slabLive[i].ptr + slabLive[i].layout[1] <= slabLive[j].ptr
               \/ slabLive[j].ptr + slabLive[j].layout[1] <= slabLive[i].ptr
    /\ \A i \in 1..Len(slabLive) :
           /\ slabLive[i].ptr \in ObjectAddrs
           /\ slabLive[i].ptr + slabLive[i].layout[1]
                  <= slabLive[i].ptr + BLOCK_SZ[ClassOf(slabLive[i].ptr)]
           /\ slabMem[slabLive[i].ptr] = CallerData(slabLive[i].data)
    /\ \E lists \in {FreeLists(Slab)} :
           \A c \in 1..N_BLOCK_SIZES : \A k \in 1..Len(lists[c]) :
               \A i \in 1..Len(slabLive) : lists[c][k] # slabLive[i].ptr
    /\ (slabRes.op = "alloc" /\ slabRes.ptr # NullPtr) =>
           /\ Len(Without(slabRes.before[slabRes.index], slabRes.ptr))
                  = Len(slabRes.before[slabRes.index]) - 1
           /\ slabRes.after[slabRes.index]
                  = Without(slabRes.before[slabRes.index], slabRes.ptr)
           /\ \A c \in 1..N_BLOCK_SIZES :
                  c # slabRes.index => slabRes.after[c] = slabRes.before[c]
    /\ (slabRes.op = "alloc" /\ slabRes.ptr = NullPtr) =>
           slabRes.after = slabRes.before
    /\ slabRes.op = "dealloc" =>
           /\ slabRes.after[ClassOf(slabRes.ptr)]
                  = <<slabRes.ptr>> \o slabRes.before[ClassOf(slabRes.ptr)]
           /\ \A c \in 1..N_BLOCK_SIZES :
                  c # ClassOf(slabRes.ptr) =>
                      slabRes.after[c] = slabRes.before[c]

\* the kernel takes an object from the middle of a free list while it holds
\* another object of that class
C23_Witness ==
    /\ slabRes.op = "alloc"
    /\ ~slabRes.test
    /\ slabRes.ptr # NullPtr
    /\ slabRes.live > 0
    /\ slabRes.ptr # slabRes.before[slabRes.index][1]
    /\ \E i \in 1..Len(slabLive) :
           /\ slabLive[i].ptr # slabRes.ptr
           /\ ClassOf(slabLive[i].ptr) = slabRes.index

\* C24: an iteration of the event loop switches to task B exactly when the
\* tick it ran reported the task timer; an iteration without a tick, or
\* whose tick returned false, does not switch
C24_SwitchIffFired ==
    lpIter.kind \in {"hlt", "done"} =>
        (lpIter.switched <=> (lpIter.ticked /\ lpIter.fired))

\* 0 <= cnt <= N and write_pos == (read_pos + cnt) mod N
CountersConsistent(q) ==
    /\ 0 <= q.cnt /\ q.cnt <= QueueCap
    /\ q.write_pos = (q.read_pos + q.cnt) % QueueCap

\* the messages the loop has dispatched are the first of those pushed, in
\* the order of the pushes; the counters of the queue are consistent; a
\* push on a full queue fails and changes nothing
QueueInOrder ==
    /\ Len(lpDispatched) <= Len(lpPushed)
    /\ lpDispatched = SubSeq(lpPushed, 1, Len(lpDispatched))
    /\ CountersConsistent(lpEvents)
    /\ lpRes.op = "push" =>
           /\ lpRes.ok <=> lpRes.before.cnt < QueueCap
           /\ ~lpRes.ok => lpRes.after = lpRes.before

\* C25: the loop dispatches the messages in the order of their pushes, the
\* counters of the queue stay consistent and a push on a full queue changes
\* nothing, and every message pushed is dispatched
C25_EachDispatchedInOrder ==
    /\ []QueueInOrder
    /\ \A k \in 1..MaxLoopPush :
           (Len(lpPushed) >= k) ~> (Len(lpDispatched) >= k)

\* C26: a transfer that fails while a device is configured makes the call
\* return TransferError, and main_loop goes on: it is still there for the
\* slot ids that wait on the address-device channel
C26_DriverContinues ==
    /\ usbdCall.result = "Err" => usbdRet = "TransferError"
    /\ usbdChan # <<>> => usbdPc # "returned"

\* C27: the configuration is asked for with a buffer of 64 bytes first and,
\* when wTotalLength is larger than 64, a second time with wTotalLength
\* bytes; the walk reads only bytes that were received into the buffer
C27_ConfigRead ==
    usbdRes.op = "read_config" =>
        /\ usbdRes.requests[1] = ProbeSize
        /\ usbdRes.total > ProbeSize =>
               usbdRes.requests = <<ProbeSize, usbdRes.total>>
        /\ \A off \in usbdRes.reads : off < usbdRes.received

\* C28: pop on an event ring that holds no event the driver has not yet
\* taken, such as the ring right after EventRing::new, returns None and
\* leaves the dequeue index and the cycle state as they were
C28_EmptyPop ==
    (erRes.op = "pop" /\ erRes.written = erRes.popped) =>
        /\ ~erRes.some
        /\ erRes.after = erRes.before
        /\ erRes.written = 0 =>
               erRes.after.deque = 0 /\ erRes.after.cycle_state

\* pop on the ring right after EventRing::new
C28_Witness ==
    /\ erRes.op = "pop"
    /\ erRes.written = 0
    /\ erRes.before = EventRing_new

\* C30: the TRBs pop returns are the events the controller wrote, in the
\* order it wrote them, none skipped, none twice, none from an earlier pass
C30_PopsAreWrites ==
    /\ Len(erPopped) <= erWritten
    /\ \A i \in 1..Len(erPopped) : erPopped[i] = i - 1
    /\ (erRes.op = "pop" /\ erRes.written > erRes.popped) => erRes.some

\* pop returns an event of the third pass over the ring
C30_Witness ==
    /\ erRes.op = "pop"
    /\ erRes.some
    /\ Len(erPopped) > 2 * RingSize
    /\ erRes.before.cycle_state

\* C29: the enqueue and dequeue indices of a ProducerRing stay in
\* 0 .. size - 2; the Link TRB slot never holds a caller's TRB and keeps its
\* ring segment pointer and toggle-cycle flag; once the enqueue index has
\* wrapped, the cycle bit of the Link TRB is the cycle state of the pass
\* that ended at the last wrap
C29_LinkKept ==
    /\ ring.enque \in 0..(RingSize - 2)
    /\ ring.deque \in 0..(RingSize - 2)
    /\ [ring.data[LinkSlot] EXCEPT !.cycle = FALSE] = LinkTRB
    /\ npush >= Capacity =>
           (ring.data[LinkSlot].cycle <=> ((npush \div Capacity - 1) % 2 = 0))
    /\ npush < Capacity => ~ring.data[LinkSlot].cycle

\* the enqueue index has wrapped once and once more, after set_deque_ptr
\* made room: the Link TRB carries the cycle state 0 of the second pass
C29_Witness ==
    /\ npush >= 2 * Capacity
    /\ dequeued
    /\ ringRes.op = "push" /\ ringRes.ok
    /\ ring.enque = 0
    /\ ~ring.data[LinkSlot].cycle

\* C31: the processor is never halted in hlt while the message queue holds
\* a message or TIMER_ELAPSED is not 0
C31_NoLostWakeup ==
    lpPc = "halted" => (lpEvents.cnt = 0 /\ lpElapsed = 0)

\* C33: the tick plus TIMER_ELAPSED is the number of LAPIC timer interrupts
\* handled so far, and the tick never decreases
C33_TicksCounted ==
    /\ [](lpTimer.tick + lpElapsed = lpLapic)
    /\ [][lpTimer'.tick >= lpTimer.tick]_vars

\* the loop has added elapsed ticks to the tick, and more interrupts have
\* come since
C33_Witness ==
    /\ lpTimer.tick > 1
    /\ lpElapsed > 1
    /\ lpIter.ticked

\* the timers with value TASK_TIMER_VALUE in heap h
TaskTimers(h) ==
    SelectSeq(h, LAMBDA t : t.value = TASK_TIMER_VALUE)

\* C34: tick(elapsed) ends, whatever elapsed is; after it the heap holds no
\* timer with timeout < tick, and the task timer is in it once: armed again
\* at tick + TASK_TIMER_PERIOD if the call popped it
C34_TickEnds ==
    (lpPc = "dispatch" /\ lpIter.ticked) =>
        /\ \A i \in 1..Len(lpTimer.timers) :
               ~(lpTimer.timers[i].timeout < lpTimer.tick)
        /\ Len(TaskTimers(lpTimer.timers)) = 1
        /\ lpIter.fired =>
               TaskTimers(lpTimer.timers)[1].timeout =
                   lpTimer.tick + TASK_TIMER_PERIOD

\* a tick that spans hundreds of periods of the task timer
C34_Witness ==
    /\ lpPc = "dispatch"
    /\ lpIter.ticked /\ lpIter.fired
    /\ lpTimer.tick > 300 * TASK_TIMER_PERIOD

\* C39: after the loop switched to task B, control returns to the loop
C39_MainResumes ==
    (lpPc = "taskB") ~> (lpPc # "taskB")

\* C32: the assert of SingleMutex::lock never fails on EVENTS or TIMER:
\* xhci_interrupt_handler never starts while the interrupted code holds the
\* EVENTS lock, and no lock site is reached with its own mutex held
C32_NeverLockedTwice ==
    /\ ~lkPanic
    /\ lkInt = "xhci" => ~lkEvents
    /\ lkPc \in {"check_lock", "pop_lock", "tick_push_lock"} => ~lkEvents
    /\ lkPc \in {"tick_lock", "wi_lock"} => ~lkTimer

\* tick holds the TIMER lock and takes the EVENTS lock for a TimerTimeout
\* while xHCI messages wait in the queue
C32_Witness ==
    /\ lkPc = "tick_push"
    /\ lkTimer /\ lkEvents
    /\ Len(lkQueue) > 0
    /\ ~lkPanic

\* C35: process_next_task returns Some(output) for a task at most once, at
\* the poll in which its future is Ready, and the slot is empty from then
\* on; executing a task whose slot is empty polls nothing and returns None
C35_NotPolledAfterReady ==
    /\ \A t \in RtTasks :
          /\ Len(rtOuts[t]) <= 1
          /\ rtOuts[t] # <<>> <=> ~rt.future[t]
    /\ rtLast.polled <=> rtLast.slot
    /\ ~rtLast.polled => rtLast.out = "None"

\* the first task has returned Ok, was woken again, and the execution of
\* that wake polled nothing
C35_Witness ==
    /\ rtOuts[1] = <<"Ok">>
    /\ rtLast.task = 1
    /\ ~rtLast.slot /\ ~rtLast.polled
    /\ rtLast.out = "None"

\* C36: a task that waits for a value of the channel is in the executor's
\* queue whenever the channel holds one; a poll returns Pending only when it
\* leaves the channel empty; the values come in send order; and every value
\* sent while the task still needs one is received
C36_NoLostWakeup ==
    /\ []((rt.future[1] /\ rt.a # <<>>) =>
             \E i \in 1..Len(rt.queue) : rt.queue[i] = 1)
    /\ []((rtLast.task = 1 /\ rtLast.polled /\ rtLast.out = "None") =>
             rtLast.left = 0)
    /\ [](rt.got = [i \in 1..Len(rt.got) |-> i])
    /\ \A k \in 1..RtNeed : (rtSent >= k) ~> (Len(rt.got) >= k)

\* both tasks were polled and are Pending, no further waker clone was used,
\* then the drain sent a value: the send took the waker and queued task 1
C36_Witness ==
    /\ rt.waker_b = 2
    /\ rt.cnt = 0
    /\ rtWakes = 0
    /\ rt.a = <<1>>
    /\ rt.waker_a = None
    /\ rt.queue = <<1>>

\* C40: the loop of run_xhci_tasks ends, and when it has ended the queue is
\* empty and every task that has not finished is suspended on an empty
\* channel with its waker stored there; an Err is reported once, and the
\* other task goes on
C40_RunEnds ==
    /\ [](rtPhase = "idle" =>
             /\ rt.queue = <<>>
             /\ rt.future[1] => (rt.waker_a = 1 /\ rt.a = <<>>)
             /\ rt.future[2] => (rt.waker_b = 2 /\ rt.b = <<>>))
    /\ [](rtReported = IF rtOuts[2] = <<"Err">> THEN <<2>> ELSE <<>>)
    /\ (rtPhase = "run") ~> (rtPhase = "idle")

\* the second task has ended with Err, which was reported; the first task
\* was polled afterwards and has ended with Ok; the loop has ended
C40_Witness ==
    /\ rtPhase = "idle"
    /\ rtReported = <<2>>
    /\ rt.cnt = RtNeed
    /\ rtLast.task = 1
    /\ rtLast.out = "Ok"

\* C37: at most one Normal TRB of the HID task is with the controller and
\* at most one oneshot is registered; the callback has been called once for
\* each transfer that ended with Success or ShortPacket, with the buffer of
\* that transfer and before the next TRB was pushed; subscribe_once never
\* returns RingIsFull
C37_OneTransferAtATime ==
    /\ Len(hidHw) <= 1
    /\ Cardinality(hidListener) <= 1
    /\ hidPc = "await" <=> Len(hidHw) = 1
    /\ hidOk = hidCalled + (IF hidPc = "woken" /\ hidRecv = "Ok" THEN 1 ELSE 0)
    /\ hidCalled > 0 =>
          /\ hidLastCall.pushes = hidLastCall.buf
          /\ hidPc # "woken" \/ hidRecv # "Ok" => hidLastCall.buf = hidLastOk
    /\ ~hidErr
    /\ hidPc # "ended"

\* the ring has wrapped twice, transfers have failed and transfers have
\* succeeded, and the task waits for the next report
C37_Witness ==
    /\ hidPushes > 2 * (RingSize - 1)
    /\ hidCalled > RingSize
    /\ hidEvents > hidOk
    /\ hidPc = "await"

\* C38: a control request that returns Err leaves the rings and the listener
\* map as they were before the call and rings no doorbell
C38_AbortedWithoutEffect ==
    (trfRes.op = "control_request" /\ ~trfRes.ok) =>
        /\ trfRings = trfRes.before.rings
        /\ trfListener = trfRes.before.listener
        /\ trfRes.bells = <<>>

====
